---------------------------- MODULE Spec2Model ----------------------------
(***************************************************************************)
(* A model of shell_logger's persistent shell session: the Shell class     *)
(* (src/shell_logger/shell.py), the execution path of ShellLogger          *)
(* (src/shell_logger/shell_logger.py), and the spawned shell subprocess    *)
(* that consumes the command frames the session writes to its stdin.       *)
(*                                                                         *)
(* A line of shell input is a sequence of words; a command is a sequence   *)
(* of lines.  Bytes in a pipe carry history fields besides their value:   *)
(* the pipe they were written to, the kind of line that produced them     *)
(* ("cmd": the user's command, "frame": the framing lines of run, "aux":   *)
(* an auxiliary command), and the number of the client call.               *)
(***************************************************************************)
EXTENDS Integers, Sequences, FiniteSets, TLC

\* ------------------------------------------------------------------ bounds

\* The number of calls the client makes on the session after constructing it.
MaxCalls == 2

\* ------------------------------------------------------- program constants

END_OF_READ == 4
chunk_size == 4096
max_anonymous_pipe_buffer_size == 65536
\* The value of returncode that stands for the string "N/A".
NA == -1

\* --------------------------------------------------------------- sequences

Last(s) == s[Len(s)]
Front(s) == SubSeq(s, 1, Len(s) - 1)
Min(a, b) == IF a < b THEN a ELSE b
Take(s, n) == SubSeq(s, 1, Min(n, Len(s)))
Drop(s, n) == SubSeq(s, Min(n, Len(s)) + 1, Len(s))

\* ------------------------------------------------------------------- bytes

\* The ASCII encoding of the words that occur in the modelled commands.
WordBytes(w) ==
    CASE w = "{" -> <<123>>
      [] w = "}" -> <<125>>
      [] w = "</dev/null" -> <<60, 47, 100, 101, 118, 47, 110, 117, 108, 108>>
      [] w = "RET_CODE=$?" -> <<82, 69, 84, 95, 67, 79, 68, 69, 61, 36, 63>>
      [] w = "printf" -> <<112, 114, 105, 110, 116, 102>>
      [] w = "'\\4'" -> <<39, 92, 52, 39>>
      [] w = "1>&2" -> <<49, 62, 38, 50>>
      [] w = "1>&out" -> <<49, 62, 38, 111, 117, 116>>
      [] w = "2>&err" -> <<50, 62, 38, 101, 114, 114>>
      [] w = "1>&err" -> <<49, 62, 38, 101, 114, 114>>
      [] w = ":" -> <<58>>
      [] w = "false" -> <<102, 97, 108, 115, 101>>
      [] w = "echo" -> <<101, 99, 104, 111>>
      [] w = "hi" -> <<104, 105>>
      [] w = "pwd" -> <<112, 119, 100>>
      [] w = "cd" -> <<99, 100>>
      [] w = "/" -> <<47>>
      [] w = "/tmp" -> <<47, 116, 109, 112>>
      [] w = "/a" -> <<47, 97>>
      [] w = "b" -> <<98>>
      [] w = "cat" -> <<99, 97, 116>>
      [] w = "bash" -> <<98, 97, 115, 104>>
      [] w = "<<" -> <<60, 60>>
      [] w = "EOF" -> <<69, 79, 70>>
      [] w = "(" -> <<40>>
      [] w = "$RET_CODE" -> <<36, 82, 69, 84, 95, 67, 79, 68, 69>>
      [] w = "env" -> <<101, 110, 118>>
      [] w = "umask" -> <<117, 109, 97, 115, 107>>
      [] w = "hostname" -> <<104, 111, 115, 116, 110, 97, 109, 101>>
      [] w = "whoami" -> <<119, 104, 111, 97, 109, 105>>
      [] w = "id" -> <<105, 100>>
      [] w = "-gn" -> <<45, 103, 110>>
      [] w = "printenv" -> <<112, 114, 105, 110, 116, 101, 110, 118>>
      [] w = "SHELL" -> <<83, 72, 69, 76, 76>>
      [] w = "ulimit" -> <<117, 108, 105, 109, 105, 116>>
      [] w = "-a" -> <<45, 97>>
      [] w = "sleep" -> <<115, 108, 101, 101, 112>>
      [] w = "inf" -> <<105, 110, 102>>
      [] w = "2>/dev/null" -> <<50, 62, 47, 100, 101, 118, 47, 110, 117, 108, 108>>
      [] w = "1>/dev/null" -> <<49, 62, 47, 100, 101, 118, 47, 110, 117, 108, 108>>
      [] w = "&" -> <<38>>
      [] w = "exit" -> <<101, 120, 105, 116>>
      [] w = "'\\303'" -> <<39, 92, 51, 48, 51, 39>>
      [] w = "'\\251'" -> <<39, 92, 50, 53, 49, 39>>
      [] w = "'a\\4'" -> <<39, 97, 92, 52, 39>>
      [] w = "PATH=/bin" -> <<80, 65, 84, 72, 61, 47, 98, 105, 110>>
      [] w = "0022" -> <<48, 48, 50, 50>>
      [] w = "host" -> <<104, 111, 115, 116>>
      [] w = "user" -> <<117, 115, 101, 114>>
      [] w = "group" -> <<103, 114, 111, 117, 112>>
      [] w = "/bin/sh" -> <<47, 98, 105, 110, 47, 115, 104>>
      [] w = "unlimited" -> <<117, 110, 108, 105, 109, 105, 116, 101, 100>>
      [] w = "/nowhere" -> <<47, 110, 111, 119, 104, 101, 114, 101>>
      [] OTHER -> <<63>>

\* Words joined by single spaces, as the shell's echo and Python's str(Path)
\* render them.
RECURSIVE JoinWords(_)
JoinWords(ws) ==
    IF ws = <<>> THEN <<>>
    ELSE IF Len(ws) = 1 THEN WordBytes(ws[1])
    ELSE WordBytes(ws[1]) \o <<32>> \o JoinWords(Tail(ws))

\* A byte sequence with its history fields.
Tag(bs, fd, by, n) ==
    [i \in 1..Len(bs) |-> [v |-> bs[i], fd |-> fd, by |-> by, n |-> n]]

\* The code points of a text.
Codes(t) == [i \in 1..Len(t) |-> t[i].c]

IsLead2(b) == b >= 194 /\ b <= 223
IsCont(b) == b >= 128 /\ b <= 191

\* bytes.decode(errors="ignore") of one chunk, for the byte values of the
\* model (ASCII, two-byte sequences, and bytes that start no sequence): a
\* byte that does not begin a complete valid sequence inside THIS chunk is
\* dropped.
RECURSIVE DecodeIgnore(_)
DecodeIgnore(bs) ==
    IF bs = <<>> THEN <<>>
    ELSE LET b == bs[1].v IN
         IF b < 128
         THEN <<[c |-> b, fd |-> bs[1].fd, by |-> bs[1].by, n |-> bs[1].n]>>
              \o DecodeIgnore(Tail(bs))
         ELSE IF IsLead2(b) /\ Len(bs) >= 2 /\ IsCont(bs[2].v)
         THEN <<[c |-> (b - 192) * 64 + (bs[2].v - 128),
                 fd |-> bs[1].fd, by |-> bs[1].by, n |-> bs[1].n]>>
              \o DecodeIgnore(Drop(bs, 2))
         ELSE DecodeIgnore(Tail(bs))

\* Whether a byte sequence is valid UTF-8 (bytes.decode() raises otherwise).
RECURSIVE IsUtf8(_)
IsUtf8(bs) ==
    IF bs = <<>> THEN TRUE
    ELSE LET b == bs[1].v IN
         IF b < 128 THEN IsUtf8(Tail(bs))
         ELSE IF IsLead2(b) /\ Len(bs) >= 2 /\ IsCont(bs[2].v)
         THEN IsUtf8(Drop(bs, 2))
         ELSE FALSE

\* The text a whole, undivided byte sequence stands for.
TextOf(bs) == Codes(DecodeIgnore(Tag(bs, "out", "cmd", 0)))

IsSpace(c) == c \in {9, 10, 11, 12, 13, 32}
IsDigit(c) == c >= 48 /\ c <= 57

\* str.strip(): white space removed from both ends.
RECURSIVE LStrip(_)
LStrip(t) == IF t # <<>> /\ IsSpace(t[1].c) THEN LStrip(Tail(t)) ELSE t
RECURSIVE RStrip(_)
RStrip(t) == IF t # <<>> /\ IsSpace(Last(t).c) THEN RStrip(Front(t)) ELSE t
Strip(t) == RStrip(LStrip(t))

\* int(text): the decimal number the stripped text spells; NA when it
\* spells none (the ValueError branch).
RECURSIVE DigitsValue(_)
DigitsValue(cs) ==
    IF cs = <<>> THEN 0 ELSE DigitsValue(Front(cs)) * 10 + (Last(cs) - 48)
ParseInt(t) ==
    LET cs == Codes(Strip(t)) IN
    IF cs # <<>> /\ \A i \in 1..Len(cs) : IsDigit(cs[i])
    THEN DigitsValue(cs) ELSE NA

\* The decimal digits the shell expands a number to.
RECURSIVE IntToBytes(_)
IntToBytes(n) ==
    IF n < 10 THEN <<48 + n>> ELSE IntToBytes(n \div 10) \o <<48 + (n % 10)>>


\* ------------------------------------------------------ paths and commands

\* A path is the sequence of words the shell splits its text into: the
\* directory "/a b" is <<"/a", "b">>.  NoPath stands for None.
NoPath == <<>>
Dirs == { <<"/">>, <<"/tmp">>, <<"/a", "b">> }
Missing == <<"/nowhere">>
StartCwd == <<"/">>

\* str(path) as Python text, and the Path a text names.
PathText(p) == TextOf(JoinWords(p))

\* The keyword `trace` absent; stats = None, as distinct from a mapping
\* without keys; trace = None.
NoTrace == "none"
NoStats == [none |-> TRUE, map |-> <<>>]
NoTraceText == [n |-> 0, cmd |-> <<>>]

\* StatsCollector.subclasses and Trace.subclasses as the module leaves them,
\* by stat_name and trace_name.
StatsCollector_subclasses == <<"disk", "cpu", "memory">>
Trace_subclasses == <<"strace", "ltrace">>
\* The executables of the tracers.
Tracers == {"strace", "ltrace"}

\* stats_collectors(measure=m): the registered collectors whose stat_name is
\* in m, in the order of the registry; a name of m that no collector bears
\* selects nothing.
stats_collectors(measure) ==
    LET Asked(c) == c \in measure IN SelectSeq(StatsCollector_subclasses, Asked)

\* A lookup that takes the first class whose name begins like the request.
trace_collector_first(name, subclasses) ==
    LET Named(c) == c = name \/ (name = "strac" /\ c = "strace")
        collectors == SelectSeq(subclasses, Named)
    IN IF Len(collectors) >= 1
       THEN [error |-> <<>>, collector |-> collectors[1]]
       ELSE [error |-> <<"Unsupported", "trace", "type:", name>>,
             collector |-> NoTrace]

\* trace_collector(trace=name) on the registry `subclasses`: the one class
\* whose trace_name equals name, or the RuntimeError it raises.
trace_collector(name, subclasses) ==
    LET Named(c) == c = name
        collectors == SelectSeq(subclasses, Named)
    IN IF Len(collectors) = 1
       THEN [error |-> <<>>, collector |-> collectors[1]]
       ELSE IF Len(collectors) = 0
       THEN [error |-> <<"Unsupported", "trace", "type:", name>>,
             collector |-> NoTrace]
       ELSE [error |-> <<"Multiple", "trace", "types", "match", name>>,
             collector |-> NoTrace]

\* Trace.trace_args of STrace and LTrace (no summary, no expression; the
\* output path is f"{trace_name}.log"), and Trace.command().
trace_args(collector) ==
    IF collector = "strace" THEN <<"strace", "-f", "-o", "strace.log">>
    ELSE <<"ltrace", "-C", "-f", "-o", "ltrace.log">>
Trace_command(collector, cmd) ==
    [cmd EXCEPT ![1] = trace_args(collector) \o <<"--">> \o @]

Cmd_noop == << <<":">> >>
Cmd_echo == << <<"echo", "hi">> >>
Cmd_echo_err == << <<"echo", "hi", "1>&2">> >>
Cmd_both == << <<"echo", "hi">>, <<"echo", "b", "1>&2">> >>
Cmd_false == << <<"false">> >>
Cmd_pwd == << <<"pwd">> >>
Cmd_cd_tmp == << <<"cd", "/tmp">> >>
Cmd_cat == << <<"cat">> >>
Cmd_read == << <<"read", "x">> >>
Cmd_heredoc == << <<"bash", "<<", "EOF">>, <<"echo", "hi">>, <<"EOF">> >>
Cmd_syntax == << <<"echo", "(">> >>
Cmd_utf8 == << <<"printf", "'\\303'">>, <<"printf", "'\\251'">> >>
Cmd_invalid == << <<"printf", "'\\375Hello\\n'">> >>
Cmd_invalid_split == << <<"printf", "'\\375\\303'">>, <<"printf", "'\\251'">> >>
Cmd_eot == << <<"printf", "'a\\4'">>, <<"printf", "b">> >>
Cmd_bg_out == << <<"sleep", "inf", "2>/dev/null", "&">> >>
Cmd_bg_err == << <<"sleep", "inf", "1>/dev/null", "&">> >>

\* The descriptors of the session besides aux_stdin_wfd: the other ends of
\* the three os.pipe() pairs, and the read ends of the two pipes Popen made
\* for the shell's stdout and stderr.
OtherFds == {"aux_stdin_rfd", "aux_stdout_rfd", "aux_stdout_wfd",
             "aux_stderr_rfd", "aux_stderr_wfd", "stdout", "stderr"}

\* ------------------------------------------------------------------- state

VARIABLES
    \* the controlling process and the Shell object
    calls,        \* client calls begun on the session
    op,           \* the client call in progress
    pc,           \* position of the main thread
    result,       \* outcome of the last finished client call
    procCwd,      \* working directory of the controlling process
    stdinOpen,    \* aux_stdin_wfd is open
    fdOpen,       \* which of the session's other descriptors are open
    pendingKI,    \* _thread.interrupt_main() was called and not yet handled
    reader,       \* position of the two tee threads
    sink,         \* what the tee threads wrote to the sinks of this call
    rdEnd,        \* the byte each tee thread stopped on
    auxRet,       \* where auxiliary_command returns to
    auxArg,       \* the auxiliary command and its strip flag
    auxOut,       \* auxiliary_command's stdout accumulator
    auxErr,       \* auxiliary_command's stderr accumulator
    runCmd,       \* the command Shell.run was given
    loc,          \* locals of ShellLogger._run
    \* the pipes
    stdinPipe, pOut, pErr, pAuxOut, pAuxErr,
    \* the spawned shell
    shAlive, shMode, shGroup, shNull, shCwd, shStatus, shRET,
    bgOut, bgErr,
    \* the file system the session and its shell share
    disk,         \* the executables on PATH and the trace files written
    \* a collector of statistics beside a command, on a clock
    sampler,
    \* two sessions a client compares
    pair,
    \* a parent ShellLogger, its child loggers and their directories
    tree,
    \* a finalized logger written to JSON and read back
    doc,
    \* the bytes of one command on their way through the two pipes
    flow,
    \* one byte sequence handed to a tee thread under two divisions
    split,
    \* one auxiliary_command call and the two auxiliary pipes
    auxio,
    \* two threads of a client calling run() on one session
    duo,
    \* the descriptor table of a process that makes several sessions
    fds,
    \* one ShellLogger and its log_book under a sequence of calls
    journal,
    \* the disk sampler: one list of samples for each mount point
    mounts,
    \* history
    wrote,        \* bytes the current run's command wrote to each stream
    fr,           \* what the shell has executed of the current run's frame
    hist          \* session history flags

procVars == <<calls, op, pc, result, procCwd, stdinOpen, fdOpen, pendingKI,
              auxRet, auxArg, auxOut, auxErr, runCmd, loc>>
teeVars == <<reader, sink, rdEnd>>
pipeVars == <<stdinPipe, pOut, pErr, pAuxOut, pAuxErr>>
shVars == <<shAlive, shMode, shGroup, shNull, shCwd, shStatus, shRET,
            bgOut, bgErr>>
histVars == <<wrote, fr, hist>>
session == <<procVars, teeVars, pipeVars, shVars, disk, histVars>>
others == <<sampler, pair, tree, doc, flow, split, auxio, duo, fds,
        journal, mounts>>
besidesSampler == <<session, pair, tree, doc, flow, split, auxio, duo, fds,
        journal, mounts>>
besidesPair == <<session, sampler, tree, doc, flow, split, auxio, duo, fds,
        journal, mounts>>
besidesTree == <<session, sampler, pair, doc, flow, split, auxio, duo, fds,
        journal, mounts>>
besidesDoc == <<session, sampler, pair, tree, flow, split, auxio, duo, fds,
        journal, mounts>>
besidesFlow == <<session, sampler, pair, tree, doc, split, auxio, duo, fds,
        journal, mounts>>
besidesSplit == <<session, sampler, pair, tree, doc, flow, auxio, duo, fds,
        journal, mounts>>
besidesAuxio == <<session, sampler, pair, tree, doc, flow, split, duo, fds,
        journal, mounts>>
besidesDuo == <<session, sampler, pair, tree, doc, flow, split, auxio, fds,
        journal, mounts>>
besidesFds == <<session, sampler, pair, tree, doc, flow, split, auxio, duo,
        journal, mounts>>
besidesJournal == <<session, sampler, pair, tree, doc, flow, split, auxio,
        duo, fds, mounts>>
besidesMounts == <<session, sampler, pair, tree, doc, flow, split, auxio,
        duo, fds, journal>>
vars == <<session, others>>

\* ------------------------------------------------- what is written to stdin

\* Lines as they sit in the stdin pipe, with their history fields.
Lines(ls, by, n) == [i \in 1..Len(ls) |-> [w |-> ls[i], by |-> by, n |-> n]]

\* Every line of the command framed as a statement of its own.
RECURSIVE RunFrame_perline(_, _, _)
RunFrame_perline(command, devnull, n) ==
    IF command = <<>> THEN <<>>
    ELSE << [w |-> <<"{">>, by |-> "frame", n |-> n],
            [w |-> command[1], by |-> "cmd", n |-> n],
            [w |-> IF devnull THEN <<"}", "</dev/null">> ELSE <<"}">>,
             by |-> "frame", n |-> n],
            [w |-> <<"RET_CODE=$?">>, by |-> "frame", n |-> n],
            [w |-> <<"printf", "'\\4'">>, by |-> "frame", n |-> n],
            [w |-> <<"printf", "'\\4'", "1>&2">>, by |-> "frame", n |-> n] >>
         \o RunFrame_perline(Tail(command), devnull, n)

\* The frame with the RET_CODE assignment written after the sentinel prints.
RunFrame_late(command, devnull, n) ==
    [i \in 1..(Len(command) + 5) |->
        IF i = 1 THEN [w |-> <<"{">>, by |-> "frame", n |-> n]
        ELSE IF i <= Len(command) + 1
        THEN [w |-> command[i - 1], by |-> "cmd", n |-> n]
        ELSE IF i = Len(command) + 2
        THEN [w |-> IF devnull THEN <<"}", "</dev/null">> ELSE <<"}">>,
              by |-> "frame", n |-> n]
        ELSE IF i = Len(command) + 3
        THEN [w |-> <<"printf", "'\\4'">>, by |-> "frame", n |-> n]
        ELSE IF i = Len(command) + 4
        THEN [w |-> <<"printf", "'\\4'", "1>&2">>, by |-> "frame", n |-> n]
        ELSE [w |-> <<"RET_CODE=$?">>, by |-> "frame", n |-> n]]

\* "{\n<command>\n}\n" or "{\n<command>\n} </dev/null\n", and the three
\* lines run() writes after it: the command's lines stand between a line
\* that opens the brace group and a line that closes it.
RunFrame(command, devnull, n) ==
    Lines(<< <<"{">> >>, "frame", n)
    \o Lines(command, "cmd", n)
    \o Lines(<< IF devnull THEN <<"}", "</dev/null">> ELSE <<"}">>,
                <<"RET_CODE=$?">>,
                <<"printf", "'\\4'">>,
                <<"printf", "'\\4'", "1>&2">> >>, "frame", n)

\* The auxiliary frame whose command lacks its two redirections.
AuxFrame_noredirect(cmd, n) ==
    [i \in 1..3 |->
        [w |-> IF i = 1 THEN cmd
               ELSE IF i = 2 THEN <<"printf", "'\\4'", "1>&out">>
               ELSE <<"printf", "'\\4'", "1>&err">>,
         by |-> "aux", n |-> n]]

\* "<cmd> 1>&<out> 2>&<err>\n" and the two sentinel prints; the words
\* "1>&out", "2>&err" and "1>&err" stand for the redirections to the numbers
\* of aux_stdout_wfd and aux_stderr_wfd.
AuxFrame(cmd, n) ==
    Lines(<< cmd \o <<"1>&out", "2>&err">>,
             <<"printf", "'\\4'", "1>&out">>,
             <<"printf", "'\\4'", "1>&err">> >>, "aux", n)

\* f"cd {path}"
CdCommand(path) == <<"cd">> \o path

\* --------------------------------------------------------------- the shell

Redirects == {"1>&2", "1>&out", "2>&err", "1>&err", "1>/dev/null",
              "2>/dev/null", "</dev/null", "&"}
Has(ws, w) == \E i \in 1..Len(ws) : ws[i] = w
IsArg(w) == w \notin Redirects
Args(ws) == SelectSeq(Tail(ws), IsArg)

\* Where a statement's descriptors 1 and 2 point.
Fd1(ws) ==
    IF Has(ws, "1>&2") THEN "err"
    ELSE IF Has(ws, "1>&out") THEN "auxout"
    ELSE IF Has(ws, "1>&err") THEN "auxerr"
    ELSE IF Has(ws, "1>/dev/null") THEN "null"
    ELSE "out"
Fd2(ws) ==
    IF Has(ws, "2>&err") THEN "auxerr"
    ELSE IF Has(ws, "2>/dev/null") THEN "null"
    ELSE "err"

\* What printf writes for its format argument.
PrintfBytes(w) ==
    CASE w = "'\\4'" -> <<4>>
      [] w = "'\\303'" -> <<195>>
      [] w = "'\\251'" -> <<169>>
      [] w = "'a\\4'" -> <<97, 4>>
      [] w = "'\\375Hello\\n'" -> <<253, 72, 101, 108, 108, 111, 10>>
      [] w = "'\\375\\303'" -> <<253, 195>>
      [] OTHER -> WordBytes(w)

\* echo's arguments after parameter expansion, joined by spaces.
RECURSIVE EchoBytes(_, _)
EchoBytes(a, ret) ==
    IF a = <<>> THEN <<>>
    ELSE LET x == IF a[1] = "$RET_CODE" THEN ret ELSE WordBytes(a[1])
             rest == EchoBytes(Tail(a), ret)
         IN IF x = <<>> THEN rest
            ELSE IF rest = <<>> THEN x
            ELSE x \o <<32>> \o rest

\* The output of a shell started on a here-document.
RECURSIVE SubshellOut(_)
SubshellOut(body) ==
    IF body = <<>> THEN <<>>
    ELSE (IF body[1][1] = "echo"
          THEN EchoBytes(Args(body[1]), <<>>) \o <<10>> ELSE <<>>)
         \o SubshellOut(Tail(body))

InfoCmds == {"env", "umask", "hostname", "whoami", "id", "printenv", "ulimit"}
InfoOut(c) ==
    CASE c = "env" -> WordBytes("PATH=/bin")
      [] c = "umask" -> WordBytes("0022")
      [] c = "hostname" -> WordBytes("host")
      [] c = "whoami" -> WordBytes("user")
      [] c = "id" -> WordBytes("group")
      [] c = "printenv" -> WordBytes("/bin/sh")
      [] OTHER -> WordBytes("unlimited")

SyntaxMsg == <<115, 121, 110, 116, 97, 120, 10>>
CdMsg == <<99, 100, 58, 10>>
NotFoundMsg == <<63, 10>>

\* The effect of one simple statement in the current shell state: bytes for
\* its descriptors 1 and 2, its exit status, and what it does to the shell.
Eff(o1, o2, st) ==
    [o1 |-> o1, o2 |-> o2, st |-> st, cwd |-> shCwd, ret |-> shRET,
     die |-> FALSE, bg |-> FALSE, block |-> FALSE]
RECURSIVE Traced(_)
Traced(ws) ==
    IF ws = <<>> THEN <<":">>
    ELSE IF ws[1] = "--" THEN Tail(ws) ELSE Traced(Tail(ws))
Effect(ws, body, devnull) ==
    LET w == IF ws[1] \in disk.bin THEN Traced(ws) ELSE ws
        c == w[1]
        a == Args(w)
    IN CASE c = ":" -> Eff(<<>>, <<>>, 0)
         [] c = "false" -> Eff(<<>>, <<>>, 1)
         [] c = "echo" -> Eff(EchoBytes(a, shRET) \o <<10>>, <<>>, 0)
         [] c = "pwd" -> Eff(JoinWords(shCwd) \o <<10>>, <<>>, 0)
         [] c = "cd" ->
              IF Len(a) = 1 /\ <<a[1]>> \in Dirs
              THEN [Eff(<<>>, <<>>, 0) EXCEPT !.cwd = <<a[1]>>]
              ELSE Eff(<<>>, CdMsg, 1)
         [] c = "cat" ->
              IF devnull THEN Eff(<<>>, <<>>, 0)
              ELSE [Eff(<<>>, <<>>, 0) EXCEPT !.block = TRUE]
         [] c = "read" ->
              IF devnull THEN Eff(<<>>, <<>>, 1)
              ELSE [Eff(<<>>, <<>>, 0) EXCEPT !.block = TRUE]
         [] c = "bash" -> Eff(SubshellOut(body), <<>>, 0)
         [] c = "printf" -> Eff(PrintfBytes(a[1]), <<>>, 0)
         [] c = "sleep" -> [Eff(<<>>, <<>>, 0) EXCEPT !.bg = TRUE]
         [] c = "exit" -> [Eff(<<>>, <<>>, 0) EXCEPT !.die = TRUE]
         [] c = "RET_CODE=$?" ->
              [Eff(<<>>, <<>>, 0) EXCEPT !.ret = IntToBytes(shStatus)]
         [] c \in InfoCmds -> Eff(InfoOut(c) \o <<10>>, <<>>, 0)
         [] OTHER -> Eff(<<>>, NotFoundMsg, 127)

\* What the frame history records of a statement.
FrameStep(ws, by, n, e, toTop) ==
    IF n # fr.n THEN fr
    ELSE IF by = "cmd" THEN [fr EXCEPT !.done = toTop, !.st = e.st]
    ELSE IF by # "frame" THEN fr
    ELSE IF ws[1] = "RET_CODE=$?"
    THEN [fr EXCEPT !.ret = @ + 1,
                    !.ordered = @ /\ fr.done /\ fr.so = 0 /\ fr.se = 0]
    ELSE IF ws[1] = "printf" /\ Fd1(ws) = "out"
    THEN [fr EXCEPT !.so = @ + 1,
                    !.ordered = @ /\ fr.done /\ fr.ret = 1 /\ fr.se = 0]
    ELSE IF ws[1] = "printf" /\ Fd1(ws) = "err"
    THEN [fr EXCEPT !.se = @ + 1,
                    !.ordered = @ /\ fr.done /\ fr.ret = 1 /\ fr.so = 1]
    ELSE fr

\* The file a tracer on PATH writes when the shell starts it: the name
\* after -o, resolved in the shell's working directory, holding the trace
\* of the command after "--" as started by call n.
RECURSIVE TraceOut(_)
TraceOut(ws) ==
    IF Len(ws) < 2 THEN <<>>
    ELSE IF ws[1] = "-o" THEN <<ws[2]>> ELSE TraceOut(Tail(ws))
TraceFile(ws, n) ==
    [dir |-> shCwd, name |-> TraceOut(ws),
     text |-> [n |-> n, cmd |-> Traced(ws)]]

\* The shell executes one statement and goes on in mode nextMode.
ApplyStmt(ws, body, devnull, by, n, nextMode) ==
    LET e == Effect(ws, body, devnull)
        t1 == Fd1(ws)
        t2 == Fd2(ws)
        add(name) == (IF t1 = name THEN Tag(e.o1, name, by, n) ELSE <<>>)
                     \o (IF t2 = name THEN Tag(e.o2, name, by, n) ELSE <<>>)
        raw(name) == (IF t1 = name THEN e.o1 ELSE <<>>)
                     \o (IF t2 = name THEN e.o2 ELSE <<>>)
    IN /\ pOut' = pOut \o add("out")
       /\ pErr' = pErr \o add("err")
       /\ pAuxOut' = pAuxOut \o add("auxout")
       /\ pAuxErr' = pAuxErr \o add("auxerr")
       /\ shCwd' = e.cwd
       /\ shStatus' = e.st
       /\ shRET' = e.ret
       /\ shAlive' = ~e.die
       /\ bgOut' = (bgOut \/ (e.bg /\ t1 = "out"))
       /\ bgErr' = (bgErr \/ (e.bg /\ t2 = "err"))
       /\ disk' = IF ws[1] \in disk.bin
                  THEN [disk EXCEPT !.logs =
                           {f \in @ : ~(f.dir = shCwd
                                         /\ f.name = TraceOut(ws))}
                           \cup {TraceFile(ws, n)}]
                  ELSE disk
       /\ shMode' = IF ~e.block THEN nextMode
                   ELSE IF ws[1] = "read" THEN "read" ELSE "cat"
       /\ wrote' = IF by = "cmd" /\ n = fr.n
                   THEN [out |-> wrote.out \o raw("out"),
                         err |-> wrote.err \o raw("err")]
                   ELSE wrote
       /\ fr' = FrameStep(ws, by, n, e, nextMode = "top" /\ ~e.block /\ ~e.die)
       /\ hist' = [hist EXCEPT !.eot =
                       @ \/ (by = "cmd" /\ \E i \in 1..Len(e.o1 \o e.o2) :
                                              (e.o1 \o e.o2)[i] = END_OF_READ)]

\* A parse error: the shell reports it on its stderr and exits.
ShellDies(by, n) ==
    /\ shAlive' = FALSE
    /\ pErr' = pErr \o Tag(SyntaxMsg, "err", by, n)
    /\ UNCHANGED <<others, disk,
                   pOut, pAuxOut, pAuxErr, shMode, shGroup, shNull,
                   shCwd, shStatus, shRET, bgOut, bgErr, wrote, fr, hist>>

\* The shell reads the next line of its stdin: at top level it executes a
\* simple statement at once and opens a brace group on "{"; inside a group
\* it collects statements up to the line that begins with "}"; inside a
\* here-document it collects the body up to the delimiter line.
ShellReadLine ==
    /\ shAlive
    /\ shMode \in {"top", "group", "heredoc"}
    /\ stdinPipe # <<>>
    /\ LET L == Head(stdinPipe) IN
       /\ stdinPipe' = Tail(stdinPipe)
       /\ UNCHANGED <<others, procVars, teeVars>>
       /\ IF shMode = "heredoc"
          THEN /\ IF L.w = <<Last(shGroup).w[3]>>
                  THEN shMode' = "group" /\ shGroup' = shGroup
                  ELSE /\ shMode' = "heredoc"
                       /\ shGroup' = [shGroup EXCEPT ![Len(shGroup)].body =
                                         Append(@, L.w)]
               /\ UNCHANGED <<others, disk,
                              pOut, pErr, pAuxOut, pAuxErr, shAlive, shNull,
                              shCwd, shStatus, shRET, bgOut, bgErr,
                              histVars>>
          ELSE IF Has(L.w, "(")
          THEN ShellDies(L.by, L.n)
          ELSE IF shMode = "group"
          THEN /\ IF L.w[1] = "}"
                  THEN /\ shMode' = "exec"
                       /\ shNull' = Has(L.w, "</dev/null")
                       /\ shGroup' = shGroup
                  ELSE /\ shMode' = IF Has(L.w, "<<") THEN "heredoc"
                                    ELSE "group"
                       /\ shNull' = shNull
                       /\ shGroup' = Append(shGroup,
                              [w |-> L.w, body |-> <<>>, by |-> L.by,
                               n |-> L.n])
               /\ UNCHANGED <<others, disk,
                              pOut, pErr, pAuxOut, pAuxErr, shAlive,
                              shCwd, shStatus, shRET, bgOut, bgErr, histVars>>
          ELSE IF L.w = <<"{">>
          THEN /\ shMode' = "group"
               /\ shGroup' = <<>>
               /\ UNCHANGED <<others, disk,
                              pOut, pErr, pAuxOut, pAuxErr, shAlive, shNull,
                              shCwd, shStatus, shRET, bgOut, bgErr,
                              histVars>>
          ELSE /\ ApplyStmt(L.w, <<>>, FALSE, L.by, L.n, "top")
               /\ UNCHANGED <<shGroup, shNull>>

\* The shell executes the next statement of a closed brace group, with its
\* stdin on /dev/null when the group was closed by "} </dev/null".
ShellExec ==
    /\ shAlive
    /\ shMode = "exec"
    /\ shGroup # <<>>
    /\ LET s == Head(shGroup) IN
       /\ shGroup' = Tail(shGroup)
       /\ ApplyStmt(s.w, s.body, shNull, s.by, s.n,
                    IF Len(shGroup) = 1 THEN "top" ELSE "exec")
       /\ UNCHANGED <<others, procVars, teeVars, stdinPipe, shNull>>

\* A command that reads the shell's own stdin (cat without the redirection)
\* consumes the next line queued there and copies it to its stdout; the
\* pipe's write end stays open in the controlling process, so it never sees
\* end of input.
ShellCat ==
    /\ shAlive
    /\ shMode = "cat"
    /\ stdinPipe # <<>>
    /\ LET L == Head(stdinPipe) IN
       /\ stdinPipe' = Tail(stdinPipe)
       /\ pOut' = pOut \o Tag(JoinWords(L.w) \o <<10>>, "out", "cmd", fr.n)
       /\ wrote' = [wrote EXCEPT !.out = @ \o JoinWords(L.w) \o <<10>>]
       /\ hist' = [hist EXCEPT !.eaten = TRUE]
       /\ UNCHANGED <<others, disk,
                      procVars, teeVars, pErr, pAuxOut, pAuxErr, shVars, fr>>

\* `read` without the redirection takes the next line queued on the shell's
\* stdin as its input and ends with status 0; the shell goes on with the
\* statement after it.
ShellRead ==
    /\ shAlive
    /\ shMode = "read"
    /\ stdinPipe # <<>>
    /\ stdinPipe' = Tail(stdinPipe)
    /\ shMode' = IF shGroup = <<>> THEN "top" ELSE "exec"
    /\ fr' = [fr EXCEPT !.done = (shGroup = <<>>)]
    /\ hist' = [hist EXCEPT !.eaten = TRUE]
    /\ UNCHANGED <<others, disk,
                   procVars, teeVars, pOut, pErr, pAuxOut, pAuxErr, shAlive,
                   shGroup, shNull, shCwd, shStatus, shRET, bgOut, bgErr,
                   wrote>>

\* The shell reads end of file on its stdin (the pipe is drained and the
\* session has closed the only write end): it exits, reporting an
\* unfinished brace group or here-document on its stderr.
ShellEof ==
    /\ shAlive
    /\ shMode \in {"top", "group", "heredoc"}
    /\ stdinPipe = <<>>
    /\ ~stdinOpen
    /\ shAlive' = FALSE
    /\ pErr' = IF shMode = "top" THEN pErr
               ELSE pErr \o Tag(SyntaxMsg, "err", "frame", fr.n)
    /\ UNCHANGED <<others, disk,
                   procVars, teeVars, stdinPipe, pOut, pAuxOut, pAuxErr,
                   shMode, shGroup, shNull, shCwd, shStatus, shRET, bgOut,
                   bgErr, histVars>>

\* ------------------------------------------------------- the main thread

NoByte == [v |-> -1, fd |-> "none", by |-> "none", n |-> 0]
EofByte(s) == [v |-> -1, fd |-> s, by |-> "eof", n |-> 0]
\* What one sink list has received, and the state of its three sinks.
NoText == [console |-> <<>>, io |-> <<>>, file |-> <<>>,
           st |-> [console |-> "open", io |-> "none", file |-> "none"]]

NoOp == [name |-> "none", cmd |-> <<>>, path |-> NoPath, devnull |-> FALSE,
         str |-> FALSE, quiet |-> [out |-> FALSE, err |-> FALSE],
         measure |-> {}, trace |-> NoTrace, subclasses |-> Trace_subclasses,
         trace_str |-> FALSE]
NoLoc == [oldPwd |-> NoPath, cdPath |-> NoPath, cdRet |-> "none", i |-> 0,
          info |-> <<>>, rc |-> NA, collectors |-> <<>>, stats |-> NoStats,
          trace_output |-> NoPath, trace |-> NoTraceText,
          alive |-> {}, finished |-> <<>>]

\* The outcome of a client call; text says whether stdout/stderr were
\* captured as strings (they are None otherwise).
Res(kind) ==
    [kind |-> kind, of |-> op.name, n |-> calls, rc |-> NA, out |-> <<>>,
     err |-> <<>>, text |-> FALSE, pwd |-> <<>>, msg |-> <<>>,
     stats |-> NoStats, trace_path |-> NoPath, trace |-> NoTraceText]

\* The statements of run() that its try block covers.
TryPcs == {"tee_start", "join_out_enter", "join_out_wait", "join_err_enter",
           "join_err_wait", "tee_close"}

\* The main thread handles a pending interrupt_main() before its next
\* statement: KeyboardInterrupt is raised there.  Inside run()'s try block it
\* is caught by the except clause; anywhere else it leaves the client call.
Interrupt ==
    /\ pendingKI' = FALSE
    /\ IF pc \in TryPcs
       THEN pc' = "except_close" /\ result' = result
       ELSE pc' = "idle" /\ result' = Res("KeyboardInterrupt")
    /\ hist' = [hist EXCEPT !.failed = @ \/ pc \in {"except_close",
                                                      "except_raise"}]
    /\ UNCHANGED <<others, disk,
                   calls, op, procCwd, stdinOpen, fdOpen, auxRet, auxArg,
                   auxOut, auxErr, runCmd, loc, teeVars, pipeVars, shVars,
                   wrote, fr>>

\* A statement of the main thread.
Main(A) == IF pendingKI THEN Interrupt ELSE A /\ pendingKI' = pendingKI

\* The call ends by raising `kind`.
Raise(kind) ==
    /\ pc' = "idle"
    /\ result' = [Res(kind) EXCEPT !.msg = IF kind = "RuntimeError"
                                            THEN runCmd ELSE <<>>]

\* auxiliary_command(posix=cmd, strip=strip), returning to `ret`.
CallAux(cmd, strip, ret) ==
    /\ pc' = "aux_write"
    /\ auxArg' = [cmd |-> cmd, strip |-> strip]
    /\ auxRet' = ret

\* ---- Shell.auxiliary_command

\* os.write(aux_stdin_wfd, ...) succeeds while the descriptor is open, even
\* when the shell is gone: the session holds the pipe's read end itself until
\* __del__.  On a closed descriptor it raises OSError.
CanWrite == stdinOpen

\* The three os.write calls of auxiliary_command; the first one raises when
\* the pipe cannot be written.
AuxWrite ==
    /\ pc = "aux_write"
    /\ Main(IF CanWrite
            THEN /\ stdinPipe' = stdinPipe \o AuxFrame(auxArg.cmd, calls)
                 /\ hist' = [hist EXCEPT !.late = @ \/ hist.failed,
                                         !.lines = @ + 3]
                 /\ auxOut' = <<>>
                 /\ auxErr' = <<>>
                 /\ pc' = "aux_rd_out"
                 /\ UNCHANGED <<others, disk,
                                calls, op, result, procCwd, stdinOpen, fdOpen,
                                auxRet, auxArg, runCmd, loc, teeVars, pOut,
                                pErr, pAuxOut, pAuxErr, shVars, wrote, fr>>
            ELSE /\ Raise("OSError")
                 /\ UNCHANGED <<others, disk,
                                calls, op, procCwd, stdinOpen, fdOpen, auxRet,
                                auxArg, auxOut, auxErr, runCmd, loc, teeVars,
                                pipeVars, shVars, histVars>>)

\* os.read(aux_stdout_rfd, 65536) in the loop that ends on a chunk whose last
\* byte is END_OF_READ; the read blocks while the pipe is empty (the session
\* itself holds the write end, so it never reports end of file).
AuxReadOut ==
    /\ pc = "aux_rd_out"
    /\ pAuxOut # <<>>
    /\ Main(LET aux == Take(pAuxOut, max_anonymous_pipe_buffer_size)
                end == Last(aux).v = END_OF_READ
                data == IF end THEN Front(aux) ELSE aux
            IN /\ pAuxOut' = Drop(pAuxOut, max_anonymous_pipe_buffer_size)
               /\ IF IsUtf8(data)
                  THEN /\ auxOut' = auxOut \o DecodeIgnore(data)
                       /\ pc' = IF end THEN "aux_rd_err" ELSE "aux_rd_out"
                       /\ result' = result
                  ELSE /\ Raise("UnicodeDecodeError")
                       /\ auxOut' = auxOut
               /\ UNCHANGED <<others, disk,
                              calls, op, procCwd, stdinOpen, fdOpen, auxRet,
                              auxArg, auxErr, runCmd, loc, teeVars, stdinPipe,
                              pOut, pErr, pAuxErr, shVars, histVars>>)

\* The same loop on aux_stderr_rfd, then the optional strip of both texts.
AuxReadErr ==
    /\ pc = "aux_rd_err"
    /\ pAuxErr # <<>>
    /\ Main(LET aux == Take(pAuxErr, max_anonymous_pipe_buffer_size)
                end == Last(aux).v = END_OF_READ
                data == IF end THEN Front(aux) ELSE aux
                all == auxErr \o DecodeIgnore(data)
            IN /\ pAuxErr' = Drop(pAuxErr, max_anonymous_pipe_buffer_size)
               /\ IF IsUtf8(data)
                  THEN /\ auxErr' = IF end /\ auxArg.strip THEN Strip(all)
                                    ELSE all
                       /\ auxOut' = IF end /\ auxArg.strip THEN Strip(auxOut)
                                    ELSE auxOut
                       /\ pc' = IF end THEN auxRet ELSE "aux_rd_err"
                       /\ result' = result
                  ELSE /\ Raise("UnicodeDecodeError")
                       /\ UNCHANGED <<others, disk, auxOut, auxErr>>
               /\ UNCHANGED <<others, disk,
                              calls, op, procCwd, stdinOpen, fdOpen, auxRet,
                              auxArg, runCmd, loc, teeVars, stdinPipe, pOut,
                              pErr, pAuxOut, shVars, histVars>>)

\* ---- Shell.cd and Shell.pwd

\* cd(path): os.chdir(path), which raises for a missing directory, then
\* auxiliary_command(posix=f"cd {path}").
CdChdir ==
    /\ pc = "cd_chdir"
    /\ Main(/\ IF loc.cdPath \in Dirs
               THEN /\ procCwd' = loc.cdPath
                    /\ CallAux(CdCommand(loc.cdPath), FALSE, "cd_ret")
                    /\ result' = result
               ELSE /\ Raise("FileNotFoundError")
                    /\ UNCHANGED <<others, disk, procCwd, auxArg, auxRet>>
            /\ UNCHANGED <<others, disk,
                           calls, op, stdinOpen, fdOpen, auxOut, auxErr,
                           runCmd, loc, teeVars, pipeVars, shVars, histVars>>)

\* cd() returns: to the constructor or the client (the call is over), or
\* into _run.
CdRet ==
    /\ pc = "cd_ret"
    /\ Main(/\ IF loc.cdRet = "client"
               THEN /\ pc' = "idle"
                    /\ result' = Res("ok")
                    /\ hist' = [hist EXCEPT !.cd = loc.cdPath]
               ELSE /\ pc' = loc.cdRet
                    /\ result' = result
                    /\ hist' = hist
            /\ UNCHANGED <<others, disk,
                           calls, op, procCwd, stdinOpen, fdOpen, auxRet,
                           auxArg, auxOut, auxErr, runCmd, loc, teeVars,
                           pipeVars, shVars, wrote, fr>>)

\* pwd() returns the stripped stdout of the auxiliary "pwd".
PwdRet ==
    /\ pc = "pwd_ret"
    /\ Main(/\ pc' = "idle"
            /\ result' = [Res("ok") EXCEPT !.out = auxOut, !.text = TRUE]
            /\ UNCHANGED <<others, disk,
                           calls, op, procCwd, stdinOpen, fdOpen, auxRet,
                           auxArg, auxOut, auxErr, runCmd, loc, teeVars,
                           pipeVars, shVars, histVars>>)

\* ---- Shell.__del__

\* The descriptors __del__ closes, in its order.
DelFds == <<"aux_stdin_rfd", "aux_stdin_wfd", "aux_stdout_rfd",
            "aux_stdout_wfd", "aux_stderr_rfd", "aux_stderr_wfd">>

\* One turn of __del__'s loop: os.close(fd); on a descriptor that is already
\* closed os.close raises OSError "Bad file descriptor", which is passed
\* over.  After the last descriptor __del__ returns.
DelStep ==
    /\ pc = "del"
    /\ Main(LET fd == DelFds[loc.i] IN
            /\ IF fd = "aux_stdin_wfd"
               THEN stdinOpen' = FALSE /\ fdOpen' = fdOpen
               ELSE /\ stdinOpen' = stdinOpen
                    /\ fdOpen' = IF fdOpen[fd]
                                 THEN [fdOpen EXCEPT ![fd] = FALSE]
                                 ELSE fdOpen
            /\ IF loc.i = Len(DelFds)
               THEN pc' = "idle" /\ result' = Res("ok") /\ loc' = loc
               ELSE /\ pc' = "del"
                    /\ result' = result
                    /\ loc' = [loc EXCEPT !.i = @ + 1]
            /\ UNCHANGED <<others, disk,
                           calls, op, procCwd, auxRet, auxArg, auxOut, auxErr,
                           runCmd, teeVars, pipeVars, shVars, histVars>>)

\* ---- Shell.run and Shell.tee

\* The four os.write calls of run(): the command in its brace group, the
\* RET_CODE assignment and the two sentinel prints.
RunWrite ==
    /\ pc = "run_write"
    /\ Main(IF CanWrite
            THEN /\ stdinPipe' = stdinPipe \o RunFrame(runCmd, op.devnull, calls)
                 /\ wrote' = [out |-> <<>>, err |-> <<>>]
                 /\ fr' = [n |-> calls, ret |-> 0, so |-> 0, se |-> 0,
                           done |-> FALSE, ordered |-> TRUE, st |-> 0]
                 /\ hist' = [hist EXCEPT
                                !.late = @ \/ hist.failed,
                                !.lines = @ + Len(RunFrame(runCmd, op.devnull,
                                                           calls))]
                 /\ pc' = "tee_start"
                 /\ UNCHANGED <<others, disk,
                                calls, op, result, procCwd, stdinOpen, fdOpen,
                                auxRet, auxArg, auxOut, auxErr, runCmd, loc,
                                teeVars, pOut, pErr, pAuxOut, pAuxErr,
                                shVars>>
            ELSE /\ Raise("OSError")
                 /\ UNCHANGED <<others, disk,
                                calls, op, procCwd, stdinOpen, fdOpen, auxRet,
                                auxArg, auxOut, auxErr, runCmd, loc, teeVars,
                                pipeVars, shVars, histVars>>)

\* The sinks as tee() makes them: a StringIO when strings are asked for, and
\* the file of the stream (os.devnull when no path is given) opened for
\* appending.
open_sinks ==
    [NoText EXCEPT !.st = [console |-> "open",
                           io |-> IF op.str THEN "open" ELSE "none",
                           file |-> "open"]]

\* tee() builds the two sink lists and starts the two threads.
TeeStart ==
    /\ pc = "tee_start"
    /\ Main(/\ sink' = [out |-> open_sinks, err |-> open_sinks]
            /\ reader' = [out |-> "read", err |-> "read"]
            /\ rdEnd' = [out |-> NoByte, err |-> NoByte]
            /\ pc' = "join_out_enter"
            /\ UNCHANGED <<others, disk,
                           calls, op, result, procCwd, stdinOpen, fdOpen,
                           auxRet, auxArg, auxOut, auxErr, runCmd, loc,
                           pipeVars, shVars, histVars>>)

\* The main thread reaches thread.join(): from here on it is blocked until
\* the thread ends, and an interrupt_main() does not wake it.
JoinEnter ==
    /\ pc \in {"join_out_enter", "join_err_enter"}
    /\ Main(/\ pc' = IF pc = "join_out_enter" THEN "join_out_wait"
                     ELSE "join_err_wait"
            /\ UNCHANGED <<others, disk,
                           calls, op, result, procCwd, stdinOpen, fdOpen,
                           auxRet, auxArg, auxOut, auxErr, runCmd, loc,
                           teeVars, pipeVars, shVars, histVars>>)

\* A join that returns whether or not the thread has ended.
JoinWait_nowait ==
    /\ pc \in {"join_out_wait", "join_err_wait"}
    /\ Main(/\ pc' = IF pc = "join_out_wait" THEN "join_err_enter"
                     ELSE "tee_close"
            /\ UNCHANGED <<others, disk,
                           calls, op, result, procCwd, stdinOpen, fdOpen,
                           auxRet, auxArg, auxOut, auxErr, runCmd, loc,
                           teeVars, pipeVars, shVars, histVars>>)

\* thread.join() returns once the thread has ended.
JoinWait ==
    /\ \/ pc = "join_out_wait" /\ reader.out = "done"
       \/ pc = "join_err_wait" /\ reader.err = "done"
    /\ Main(/\ pc' = IF pc = "join_out_wait" THEN "join_err_enter"
                     ELSE "tee_close"
            /\ UNCHANGED <<others, disk,
                           calls, op, result, procCwd, stdinOpen, fdOpen,
                           auxRet, auxArg, auxOut, auxErr, runCmd, loc,
                           teeVars, pipeVars, shVars, histVars>>)

\* The members of sink list s: sys.stdout or sys.stderr unless quiet, the
\* StringIO when strings are asked for, and the file.
InList(s, k) ==
    \/ k = "console" /\ ~op.quiet[s]
    \/ k = "io" /\ op.str
    \/ k = "file"
\* The closing loop of tee() over list s: every member that is neither None
\* nor sys.stdout, sys.stderr or sys.stdin and is not closed is closed.
close_files(s, k) ==
    [k EXCEPT !.st = [x \in DOMAIN k.st |->
                         IF InList(s, x) /\ x # "console" /\ k.st[x] = "open"
                         THEN "closed" ELSE k.st[x]]]

\* tee() reads the two StringIO values, closes the files and returns; run()
\* then asks for the return code with auxiliary_command("echo $RET_CODE").
TeeClose ==
    /\ pc = "tee_close"
    /\ Main(/\ CallAux(<<"echo", "$RET_CODE">>, FALSE, "run_rc")
            /\ sink' = [s \in {"out", "err"} |-> close_files(s, sink[s])]
            /\ UNCHANGED <<others, disk,
                           calls, op, result, procCwd, stdinOpen, fdOpen,
                           auxOut, auxErr, runCmd, loc, reader, rdEnd,
                           pipeVars, shVars, histVars>>)

\* except KeyboardInterrupt: os.close(self.aux_stdin_wfd)
ExceptClose ==
    /\ pc = "except_close"
    /\ Main(/\ stdinOpen' = FALSE
            /\ fdOpen' = fdOpen
            /\ pc' = "except_raise"
            /\ UNCHANGED <<others, disk,
                           calls, op, result, procCwd, auxRet, auxArg, auxOut,
                           auxErr, runCmd, loc, teeVars, pipeVars, shVars,
                           histVars>>)

\* raise RuntimeError(message) from None; the message holds the command.
ExceptRaise ==
    /\ pc = "except_raise"
    /\ Main(/\ Raise("RuntimeError")
            /\ hist' = [hist EXCEPT !.failed = TRUE]
            /\ UNCHANGED <<others, disk,
                           calls, op, procCwd, stdinOpen, fdOpen, auxRet,
                           auxArg, auxOut, auxErr, runCmd, loc, teeVars,
                           pipeVars, shVars, wrote, fr>>)

\* A run() that lets the ValueError of int(aux_out) leave the call.
RunRc_strict ==
    /\ pc = "run_rc"
    /\ Main(/\ IF ParseInt(auxOut) = NA
               THEN Raise("ValueError") /\ loc' = loc
               ELSE IF op.name = "run"
               THEN /\ pc' = "idle"
                    /\ result' = [Res("ok") EXCEPT
                                     !.rc = ParseInt(auxOut),
                                     !.out = sink.out.io,
                                     !.err = sink.err.io,
                                     !.text = op.str]
                    /\ loc' = loc
               ELSE /\ pc' = "_run_after"
                    /\ result' = result
                    /\ loc' = [loc EXCEPT !.rc = ParseInt(auxOut)]
            /\ UNCHANGED <<others, disk,
                           calls, op, procCwd, stdinOpen, fdOpen, auxRet,
                           auxArg, auxOut, auxErr, runCmd, teeVars, pipeVars,
                           shVars, histVars>>)

\* A run() that treats a non-zero exit status as an error of the call.
RunRc_check ==
    /\ pc = "run_rc"
    /\ Main(/\ IF ParseInt(auxOut) # 0
               THEN Raise("CalledProcessError") /\ loc' = loc
               ELSE IF op.name = "run"
               THEN /\ pc' = "idle"
                    /\ result' = [Res("ok") EXCEPT
                                     !.rc = ParseInt(auxOut),
                                     !.out = sink.out.io,
                                     !.err = sink.err.io,
                                     !.text = op.str]
                    /\ loc' = loc
               ELSE /\ pc' = "_run_after"
                    /\ result' = result
                    /\ loc' = [loc EXCEPT !.rc = ParseInt(auxOut)]
            /\ UNCHANGED <<others, disk,
                           calls, op, procCwd, stdinOpen, fdOpen, auxRet,
                           auxArg, auxOut, auxErr, runCmd, teeVars, pipeVars,
                           shVars, histVars>>)

\* int(aux_out), "N/A" on ValueError, and the SimpleNamespace run() returns:
\* to the client, or into _run.
RunRc ==
    /\ pc = "run_rc"
    /\ Main(/\ IF op.name = "run"
               THEN /\ pc' = "idle"
                    /\ result' = [Res("ok") EXCEPT
                                     !.rc = ParseInt(auxOut),
                                     !.out = sink.out.io,
                                     !.err = sink.err.io,
                                     !.text = op.str]
                    /\ loc' = loc
               ELSE /\ pc' = "_run_after"
                    /\ result' = result
                    /\ loc' = [loc EXCEPT !.rc = ParseInt(auxOut)]
            /\ UNCHANGED <<others, disk,
                           calls, op, procCwd, stdinOpen, fdOpen, auxRet,
                           auxArg, auxOut, auxErr, runCmd, teeVars, pipeVars,
                           shVars, histVars>>)

\* ---- the tee threads

PipeOf(s) == IF s = "out" THEN pOut ELSE pErr
\* Some process still holds the write end of the stream's pipe.
Writers(s) == shAlive \/ (IF s = "out" THEN bgOut ELSE bgErr)
\* The two sink lists handed to the wrong threads.
SinkOf_crossed(s) == IF s = "out" THEN "err" ELSE "out"
\* The sink list a thread was started with.
SinkOf(s) == s
\* A tee that echoes to the console whatever the quiet flags say.
WriteSinks_loud(s, k, text) ==
    [console |-> k.console \o text,
     io |-> IF op.str THEN k.io \o text ELSE k.io,
     file |-> k.file \o text,
     st |-> k.st]
\* A tee that leaves its loop over the sinks after the first that is not
\* None.
WriteSinks_first(s, k, text) ==
    [console |-> IF op.quiet[s] THEN k.console ELSE k.console \o text,
     io |-> IF op.str /\ op.quiet[s] THEN k.io \o text ELSE k.io,
     file |-> IF ~op.str /\ op.quiet[s] THEN k.file \o text ELSE k.file,
     st |-> k.st]
\* output_file.write(text) on every sink of list s that is not None.
WriteSinks(s, k, text) ==
    [console |-> IF op.quiet[s] THEN k.console ELSE k.console \o text,
     io |-> IF op.str THEN k.io \o text ELSE k.io,
     file |-> k.file \o text,
     st |-> k.st]

\* One os.read(fd, chunk_size) of tee's write(): a chunk that does not end
\* in END_OF_READ is decoded and written to the sinks; an empty chunk (the
\* pipe is empty and no process holds its write end) makes the thread call
\* _thread.interrupt_main(); a chunk ending in END_OF_READ is written without
\* its last byte.  Either of the last two ends the thread.
Reader(s) ==
    /\ reader[s] = "read"
    /\ PipeOf(s) # <<>> \/ ~Writers(s)
    /\ LET chunk == Take(PipeOf(s), chunk_size)
           rest == Drop(PipeOf(s), chunk_size)
           end == chunk = <<>> \/ Last(chunk).v = END_OF_READ
           data == IF chunk = <<>> THEN <<>>
                   ELSE IF end THEN Front(chunk) ELSE chunk
       IN /\ IF s = "out" THEN pOut' = rest /\ pErr' = pErr
                          ELSE pErr' = rest /\ pOut' = pOut
          /\ sink' = [sink EXCEPT ![SinkOf(s)] =
                         WriteSinks(SinkOf(s), @, DecodeIgnore(data))]
          /\ reader' = [reader EXCEPT ![s] = IF end THEN "done" ELSE "read"]
          /\ rdEnd' = [rdEnd EXCEPT ![s] = IF chunk = <<>> THEN EofByte(s)
                                           ELSE IF end THEN Last(chunk)
                                           ELSE @]
          /\ pendingKI' = (pendingKI \/ chunk = <<>>)
    /\ UNCHANGED <<others, disk,
                   calls, op, pc, result, procCwd, stdinOpen, fdOpen, auxRet,
                   auxArg, auxOut, auxErr, runCmd, loc, stdinPipe, pAuxOut,
                   pAuxErr, shVars, histVars>>

\* ---- ShellLogger._run and ShellLogger.log

\* The auxiliary commands of auxiliary_information, with their strip flags.
InfoList ==
    << [cmd |-> <<"pwd">>, strip |-> TRUE],
       [cmd |-> <<"env">>, strip |-> FALSE],
       [cmd |-> <<"umask">>, strip |-> TRUE],
       [cmd |-> <<"hostname">>, strip |-> TRUE],
       [cmd |-> <<"whoami">>, strip |-> TRUE],
       [cmd |-> <<"id", "-gn">>, strip |-> TRUE],
       [cmd |-> <<"printenv", "SHELL">>, strip |-> TRUE],
       [cmd |-> <<"ulimit", "-a">>, strip |-> FALSE] >>

\* A _run that takes the process's working directory for a missing pwd
\* argument and changes the shell to it.
RunLoggerStart_home ==
    /\ pc = "_run_start"
    /\ Main(/\ pc' = "cd_chdir"
            /\ loc' = [NoLoc EXCEPT !.oldPwd = procCwd,
                                    !.cdPath = IF op.path # NoPath
                                               THEN op.path ELSE procCwd,
                                    !.cdRet = "info"]
            /\ UNCHANGED <<others, disk,
                           calls, op, result, procCwd, stdinOpen, fdOpen,
                           auxRet, auxArg, auxOut, auxErr, runCmd, teeVars,
                           pipeVars, shVars, histVars>>)

\* A _run that takes its snapshot without changing into the target directory
\* first.
RunLoggerStart_snapshot_first ==
    /\ pc = "_run_start"
    /\ Main(/\ pc' = "info"
            /\ loc' = [NoLoc EXCEPT !.oldPwd = procCwd]
            /\ UNCHANGED <<others, disk,
                           calls, op, result, procCwd, stdinOpen, fdOpen,
                           auxRet, auxArg, auxOut, auxErr, runCmd, teeVars,
                           pipeVars, shVars, histVars>>)

\* _run: old_pwd = Path(os.getcwd()); with a pwd argument, shell.cd(pwd).
RunLoggerStart ==
    /\ pc = "_run_start"
    /\ Main(/\ IF op.path # NoPath
               THEN /\ pc' = "cd_chdir"
                    /\ loc' = [NoLoc EXCEPT !.oldPwd = procCwd,
                                            !.cdPath = op.path,
                                            !.cdRet = "info"]
               ELSE /\ pc' = "info"
                    /\ loc' = [NoLoc EXCEPT !.oldPwd = procCwd]
            /\ UNCHANGED <<others, disk,
                           calls, op, result, procCwd, stdinOpen, fdOpen,
                           auxRet, auxArg, auxOut, auxErr, runCmd, teeVars,
                           pipeVars, shVars, histVars>>)

\* auxiliary_information(): the next auxiliary command; after the last one,
\* _run goes on to its collectors and its tracer.
InfoCall ==
    /\ pc = "info"
    /\ Main(/\ IF Len(loc.info) < Len(InfoList)
               THEN /\ CallAux(InfoList[Len(loc.info) + 1].cmd,
                               InfoList[Len(loc.info) + 1].strip, "info_got")
                    /\ runCmd' = runCmd
               ELSE /\ pc' = "_run_setup"
                    /\ runCmd' = runCmd
                    /\ UNCHANGED <<others, disk, auxArg, auxRet>>
            /\ UNCHANGED <<others, disk,
                           calls, op, result, procCwd, stdinOpen, fdOpen,
                           auxOut, auxErr, loc, teeVars, pipeVars, shVars,
                           histVars>>)

\* The stdout of the auxiliary command is kept.
InfoGot ==
    /\ pc = "info_got"
    /\ Main(/\ loc' = [loc EXCEPT !.info = Append(@, auxOut)]
            /\ pc' = "info"
            /\ UNCHANGED <<others, disk,
                           calls, op, result, procCwd, stdinOpen, fdOpen,
                           auxRet, auxArg, auxOut, auxErr, runCmd, teeVars,
                           pipeVars, shVars, histVars>>)

\* collector.start() for each collector: the processes that then run.
start(collectors) == {collectors[i] : i \in 1..Len(collectors)}

\* collectors = stats_collectors(**kwargs), stats = {} when there is one and
\* None otherwise; with a trace keyword, trace_collector(**kwargs), which
\* raises or gives the tracer whose command() wraps the command and whose
\* output_path is kept.  Then shell.run(command).
RunLoggerSetup ==
    /\ pc = "_run_setup"
    /\ Main(LET collectors == stats_collectors(op.measure)
                trace == trace_collector(op.trace, op.subclasses)
            IN /\ IF op.trace = NoTrace
                  THEN /\ pc' = "run_write"
                       /\ runCmd' = op.cmd
                       /\ result' = result
                  ELSE IF trace.error = <<>>
                  THEN /\ pc' = "run_write"
                       /\ runCmd' = Trace_command(trace.collector, op.cmd)
                       /\ result' = result
                  ELSE /\ pc' = "idle"
                       /\ runCmd' = runCmd
                       /\ result' = [Res("RuntimeError") EXCEPT
                                        !.msg = <<trace.error>>]
               /\ loc' = [loc EXCEPT
                     !.collectors = collectors,
                     !.alive = start(collectors),
                     !.stats = IF Len(collectors) > 0
                               THEN [none |-> FALSE, map |-> <<>>]
                               ELSE NoStats,
                     !.trace_output =
                        IF op.trace # NoTrace /\ trace.error = <<>>
                        THEN TraceOut(trace_args(trace.collector))
                        ELSE NoPath]
               /\ UNCHANGED <<others, disk,
                              calls, op, procCwd, stdinOpen, fdOpen, auxRet,
                              auxArg, auxOut, auxErr, teeVars, pipeVars,
                              shVars, histVars>>)

\* StatsCollector.finish() of collector c: the samples it took during the
\* call.
finish(c) == [of |-> c, n |-> calls]

\* The loop over the collectors after shell.run: finish() terminates the
\* process of each.
finish_all(l) == [l EXCEPT !.alive = {}, !.finished = @ \o l.collectors]

\* open(path) in the controlling process: the files of that name in its
\* working directory.
Open(path) == {f \in disk.logs : f.dir = procCwd /\ f.name = path}

\* After shell.run: stats[collector.stat_name] = collector.finish() for each
\* collector; with trace_str and a tracer, the trace file is read, and a
\* missing file ends the call with FileNotFoundError; then, with a pwd
\* argument, shell.cd(old_pwd).
RunLoggerAfter ==
    /\ pc = "_run_after"
    /\ Main(LET names == {loc.collectors[i] : i \in 1..Len(loc.collectors)}
                stats == IF loc.stats.none THEN loc.stats
                         ELSE [none |-> FALSE,
                               map |-> [c \in names |-> finish(c)]]
                read == op.trace_str /\ loc.trace_output # NoPath
                trace == IF read
                         THEN (CHOOSE f \in Open(loc.trace_output) : TRUE).text
                         ELSE NoTraceText
            IN /\ IF read /\ Open(loc.trace_output) = {}
                  THEN /\ Raise("FileNotFoundError")
                       /\ loc' = [finish_all(loc) EXCEPT !.stats = stats]
                  ELSE IF op.path # NoPath
                  THEN /\ pc' = "cd_chdir"
                       /\ result' = result
                       /\ loc' = [finish_all(loc) EXCEPT
                                             !.stats = stats,
                                             !.trace = trace,
                                             !.cdPath = loc.oldPwd,
                                             !.cdRet = "_run_ret"]
                  ELSE /\ pc' = "_run_ret"
                       /\ result' = result
                       /\ loc' = [finish_all(loc) EXCEPT
                                             !.stats = stats,
                                             !.trace = trace]
               /\ UNCHANGED <<others, disk,
                              calls, op, procCwd, stdinOpen, fdOpen, auxRet,
                              auxArg, auxOut, auxErr, runCmd, teeVars,
                              pipeVars, shVars, histVars>>)

\* _run returns the merged namespace; log() returns its stdout and stderr,
\* which are None unless return_info was set.
RunLoggerRet ==
    /\ pc = "_run_ret"
    /\ Main(/\ pc' = "idle"
            /\ result' = [Res("ok") EXCEPT !.rc = loc.rc,
                                            !.out = sink.out.io,
                                            !.err = sink.err.io,
                                            !.text = op.str,
                                            !.pwd = loc.info[1],
                                            !.stats = loc.stats,
                                            !.trace_path = loc.trace_output,
                                            !.trace = loc.trace]
            /\ UNCHANGED <<others, disk,
                           calls, op, procCwd, stdinOpen, fdOpen, auxRet,
                           auxArg, auxOut, auxErr, runCmd, loc, teeVars,
                           pipeVars, shVars, histVars>>)

\* ------------------------------------------------------ the client's calls

\* Shell.run(command, stdout_str=True, stderr_str=True, devnull_stdin=d)
RunInputs ==
    {<<c, FALSE>> : c \in {Cmd_noop, Cmd_echo, Cmd_echo_err, Cmd_false,
                           Cmd_cat, Cmd_read, Cmd_heredoc, Cmd_syntax,
                           Cmd_utf8, Cmd_invalid, Cmd_invalid_split, Cmd_eot,
                           Cmd_bg_out, Cmd_bg_err}}
    \cup {<<Cmd_cat, TRUE>>}
\* ShellLogger._run(command, pwd=p, measure=m, trace=t, trace_str=s), with
\* Trace.subclasses as the module leaves it or with one more class
\* registered by the client, on a machine that has the tracers of the last
\* component on PATH.
LoggerInputs ==
    {<<in[1], in[2], {}, NoTrace, Trace_subclasses, TRUE, Tracers>> :
        in \in ({Cmd_pwd} \X (Dirs \cup {NoPath}))
                \cup {<<Cmd_cd_tmp, NoPath>>}}
    \cup {<<Cmd_echo, NoPath, m, NoTrace, Trace_subclasses, TRUE, Tracers>> :
            m \in {{"cpu"}, {"cpu", "bogus"}, {"bogus"}}}
    \cup {<<Cmd_echo, NoPath, {}, "strace", Trace_subclasses, in[1], in[2]>> :
            in \in BOOLEAN \X {Tracers, {}}}
    \cup {<<Cmd_echo, NoPath, {}, "strac", Trace_subclasses, TRUE, Tracers>>,
          <<Cmd_echo, NoPath, {}, "strace",
            Append(Trace_subclasses, "strace"), TRUE, Tracers>>,
          <<Cmd_echo, <<"/tmp">>, {}, "strac", Trace_subclasses, TRUE,
            Tracers>>,
          <<Cmd_echo, NoPath, {"cpu"}, "strac", Trace_subclasses, TRUE,
            Tracers>>,
          <<Cmd_syntax, NoPath, {"cpu"}, NoTrace, Trace_subclasses, TRUE,
            Tracers>>}
\* ShellLogger.log(msg, command, live_stdout=o, live_stderr=e, return_info=r)
LogInputs ==
    {<<Cmd_cat, FALSE, FALSE, FALSE>>,
     <<Cmd_both, FALSE, FALSE, FALSE>>,
     <<Cmd_both, TRUE, FALSE, FALSE>>,
     <<Cmd_both, FALSE, TRUE, TRUE>>,
     <<Cmd_both, TRUE, TRUE, TRUE>>}
\* Shell.cd(path)
CdInputs == Dirs \cup {Missing}

\* Shell(pwd=p): the pipes exist and the shell is spawned; the constructor
\* ends with self.cd(pwd), pwd being Path.cwd() when none is given.
Construct ==
    /\ pc = "new"
    /\ \E p \in {NoPath, <<"/a", "b">>} :
          /\ op' = [NoOp EXCEPT !.name = "init", !.path = p]
          /\ loc' = [NoLoc EXCEPT !.cdPath = IF p = NoPath THEN procCwd ELSE p,
                                  !.cdRet = "client"]
    /\ pc' = "cd_chdir"
    /\ UNCHANGED <<others, disk,
                   calls, result, procCwd, stdinOpen, fdOpen, pendingKI,
                   auxRet, auxArg, auxOut, auxErr, runCmd, teeVars, pipeVars,
                   shVars, histVars>>

Idle == pc = "idle" /\ ~pendingKI /\ calls < MaxCalls

\* What the history keeps when a client call begins: the call before it (its
\* operation, its command and how it ended), whether every call so far
\* returned a result and none of them was a teardown, and the working
\* directories of the shell and of the controlling process at that moment;
\* the count of lines the call has written to the shell's stdin starts at 0.
Enter(cd) ==
    [hist EXCEPT !.cd = cd,
                 !.cwd0 = shCwd,
                 !.lines = 0,
                 !.proc0 = procCwd,
                 !.prev = [name |-> op.name, cmd |-> op.cmd,
                           path |-> op.path, kind |-> result.kind,
                           rc |-> result.rc],
                 !.ok = @ /\ (calls = 0 \/ (/\ result.n = calls
                                            /\ result.kind = "ok"
                                            /\ result.of # "del"))]

CallCd ==
    /\ Idle
    /\ \E p \in CdInputs :
          /\ op' = [NoOp EXCEPT !.name = "cd", !.path = p]
          /\ loc' = [NoLoc EXCEPT !.cdPath = p, !.cdRet = "client"]
    /\ pc' = "cd_chdir"
    /\ calls' = calls + 1
    /\ hist' = Enter(NoPath)
    /\ UNCHANGED <<others, disk,
                   result, procCwd, stdinOpen, fdOpen, pendingKI, auxRet,
                   auxArg, auxOut, auxErr, runCmd, teeVars, pipeVars, shVars,
                   wrote, fr>>

CallPwd ==
    /\ Idle
    /\ op' = [NoOp EXCEPT !.name = "pwd"]
    /\ CallAux(<<"pwd">>, TRUE, "pwd_ret")
    /\ calls' = calls + 1
    /\ hist' = Enter(hist.cd)
    /\ UNCHANGED <<others, disk,
                   result, procCwd, stdinOpen, fdOpen, pendingKI, auxOut,
                   auxErr, runCmd, loc, teeVars, pipeVars, shVars, wrote, fr>>

CallRun ==
    /\ Idle
    /\ \E in \in RunInputs :
          /\ op' = [NoOp EXCEPT !.name = "run", !.cmd = in[1],
                                !.devnull = in[2], !.str = TRUE]
          /\ runCmd' = in[1]
    /\ pc' = "run_write"
    /\ calls' = calls + 1
    /\ hist' = Enter(NoPath)
    /\ UNCHANGED <<others, disk,
                   result, procCwd, stdinOpen, fdOpen, pendingKI, auxRet,
                   auxArg, auxOut, auxErr, loc, teeVars, pipeVars, shVars,
                   wrote, fr>>

\* _run sets stdout_str and stderr_str to True when absent; the call is
\* made with the tracers of in[7] on PATH.
CallRunLogger ==
    /\ Idle
    /\ \E in \in LoggerInputs :
          /\ op' = [NoOp EXCEPT !.name = "_run", !.cmd = in[1],
                                !.path = in[2], !.str = TRUE,
                                !.measure = in[3], !.trace = in[4],
                                !.subclasses = in[5], !.trace_str = in[6]]
          /\ disk' = [disk EXCEPT !.bin = in[7]]
    /\ pc' = "_run_start"
    /\ calls' = calls + 1
    /\ hist' = Enter(NoPath)
    /\ UNCHANGED <<others,
                   result, procCwd, stdinOpen, fdOpen, pendingKI, auxRet,
                   auxArg, auxOut, auxErr, runCmd, loc, teeVars, pipeVars,
                   shVars, wrote, fr>>

\* log() passing devnull_stdin = False.
CallLog_inherit ==
    /\ pc = "idle" /\ ~pendingKI /\ calls < MaxCalls
    /\ \E c \in {<< <<"cat">> >>, << <<"echo", "hi">> >>} :
          op' = [NoOp EXCEPT !.name = "log", !.cmd = c,
                             !.quiet = [out |-> TRUE, err |-> TRUE]]
    /\ pc' = "_run_start"
    /\ calls' = calls + 1
    /\ hist' = Enter(<<>>)
    /\ UNCHANGED <<others, disk,
                   result, procCwd, stdinOpen, fdOpen, pendingKI, auxRet,
                   auxArg, auxOut, auxErr, runCmd, loc, teeVars, pipeVars,
                   shVars, wrote, fr>>

\* log() passes quiet_stdout = not live_stdout, stdout_str = trace_str =
\* return_info,
\* devnull_stdin = stdin_redirect and pwd = cwd; the defaults are
\* live_stdout = False, return_info = False, stdin_redirect = True, cwd = None.
CallLog ==
    /\ Idle
    /\ \E in \in LogInputs :
          op' = [NoOp EXCEPT !.name = "log", !.cmd = in[1], !.devnull = TRUE,
                             !.quiet = [out |-> ~in[2], err |-> ~in[3]],
                             !.str = in[4], !.trace_str = in[4]]
    /\ pc' = "_run_start"
    /\ calls' = calls + 1
    /\ hist' = Enter(NoPath)
    /\ UNCHANGED <<others, disk,
                   result, procCwd, stdinOpen, fdOpen, pendingKI, auxRet,
                   auxArg, auxOut, auxErr, runCmd, loc, teeVars, pipeVars,
                   shVars, wrote, fr>>

\* Shell.__del__(), invoked by the client or by the garbage collector's
\* caller while the object is still referenced.
CallDel ==
    /\ Idle
    /\ op' = [NoOp EXCEPT !.name = "del"]
    /\ loc' = [NoLoc EXCEPT !.i = 1]
    /\ pc' = "del"
    /\ calls' = calls + 1
    /\ hist' = Enter(NoPath)
    /\ UNCHANGED <<others, disk,
                   result, procCwd, stdinOpen, fdOpen, pendingKI, auxRet,
                   auxArg, auxOut, auxErr, runCmd, teeVars, pipeVars, shVars,
                   wrote, fr>>

\* An interrupt_main() that arrives while no call of the session is running
\* raises KeyboardInterrupt in the client's own code.
CallerInterrupted ==
    /\ pc = "idle"
    /\ pendingKI
    /\ pendingKI' = FALSE
    /\ result' = [Res("KeyboardInterrupt") EXCEPT !.of = "caller"]
    /\ UNCHANGED <<others, disk,
                   calls, op, pc, procCwd, stdinOpen, fdOpen, auxRet, auxArg,
                   auxOut, auxErr, runCmd, loc, teeVars, pipeVars, shVars,
                   histVars>>

\* ----------------------------------------------------------- specification

\* No collector of statistics is under observation.
NoSampler ==
    [state |-> "none", interval |-> 0, duration |-> 0, now |-> 0, t0 |-> 0,
     due |-> 0, latest |-> 0, samples |-> 0, by |-> 0, done |-> 0]

\* No sessions are being compared.
NoPair == [state |-> "none"]

NoTree == [state |-> "none"]

NoDoc == [state |-> "none"]

NoFlow == [state |-> "none"]

NoSplit == [state |-> "none"]

NoAuxio == [state |-> "none"]

NoDuo == [state |-> "none"]

NoFds == [state |-> "none"]

NoJournal == [state |-> "none"]

NoMounts == [state |-> "none"]

\* The session before its constructor has run.
Session0 ==
    /\ calls = 0
    /\ op = NoOp
    /\ pc = "new"
    /\ result = [kind |-> "none", of |-> "none", n |-> 0, rc |-> NA,
                 out |-> <<>>, err |-> <<>>, text |-> FALSE, pwd |-> <<>>,
                 msg |-> <<>>, stats |-> NoStats, trace_path |-> NoPath,
                 trace |-> NoTraceText]
    /\ procCwd = StartCwd
    /\ stdinOpen = TRUE
    /\ fdOpen = [fd \in OtherFds |-> TRUE]
    /\ pendingKI = FALSE
    /\ reader = [out |-> "idle", err |-> "idle"]
    /\ sink = [out |-> NoText, err |-> NoText]
    /\ rdEnd = [out |-> NoByte, err |-> NoByte]
    /\ auxRet = "none"
    /\ auxArg = [cmd |-> <<>>, strip |-> FALSE]
    /\ auxOut = <<>>
    /\ auxErr = <<>>
    /\ runCmd = <<>>
    /\ loc = NoLoc
    /\ stdinPipe = <<>>
    /\ pOut = <<>>
    /\ pErr = <<>>
    /\ pAuxOut = <<>>
    /\ pAuxErr = <<>>
    /\ shAlive = TRUE
    /\ shMode = "top"
    /\ shGroup = <<>>
    /\ shNull = FALSE
    /\ shCwd = StartCwd
    /\ shStatus = 0
    /\ shRET = <<>>
    /\ bgOut = FALSE
    /\ bgErr = FALSE
    /\ disk = [bin |-> {}, logs |-> {}]
    /\ wrote = [out |-> <<>>, err |-> <<>>]
    /\ fr = [n |-> 0, ret |-> 0, so |-> 0, se |-> 0, done |-> FALSE,
             ordered |-> TRUE, st |-> 0]
    /\ hist = [eot |-> FALSE, eaten |-> FALSE, failed |-> FALSE,
               late |-> FALSE, cd |-> NoPath, ok |-> TRUE,
               cwd0 |-> StartCwd, proc0 |-> StartCwd, lines |-> 0,
               prev |-> [name |-> "none", cmd |-> <<>>, path |-> NoPath,
                         kind |-> "none", rc |-> NA]]

\* Everything beside the session is absent, apart from the objects named in S.
Apart(S) ==
    /\ IF "sampler" \in S THEN TRUE ELSE sampler = NoSampler
    /\ IF "pair" \in S THEN TRUE ELSE pair = NoPair
    /\ IF "tree" \in S THEN TRUE ELSE tree = NoTree
    /\ IF "doc" \in S THEN TRUE ELSE doc = NoDoc
    /\ IF "flow" \in S THEN TRUE ELSE flow = NoFlow
    /\ IF "split" \in S THEN TRUE ELSE split = NoSplit
    /\ IF "auxio" \in S THEN TRUE ELSE auxio = NoAuxio
    /\ IF "duo" \in S THEN TRUE ELSE duo = NoDuo
    /\ IF "fds" \in S THEN TRUE ELSE fds = NoFds
    /\ IF "journal" \in S THEN TRUE ELSE journal = NoJournal
    /\ IF "mounts" \in S THEN TRUE ELSE mounts = NoMounts

Init ==
    /\ Session0
    /\ Apart({})

Next ==
    \/ Construct
    \/ CallCd
    \/ CallPwd
    \/ CallRun
    \/ CallRunLogger
    \/ CallLog
    \/ CallDel
    \/ CallerInterrupted
    \/ AuxWrite
    \/ AuxReadOut
    \/ AuxReadErr
    \/ CdChdir
    \/ CdRet
    \/ PwdRet
    \/ RunWrite
    \/ TeeStart
    \/ JoinEnter
    \/ JoinWait
    \/ TeeClose
    \/ ExceptClose
    \/ ExceptRaise
    \/ RunRc
    \/ Reader("out")
    \/ Reader("err")
    \/ RunLoggerStart
    \/ InfoCall
    \/ InfoGot
    \/ RunLoggerSetup
    \/ RunLoggerAfter
    \/ RunLoggerRet
    \/ ShellReadLine
    \/ ShellExec
    \/ ShellCat
    \/ ShellRead
    \/ ShellEof
    \/ DelStep

Spec == Init /\ [][Next]_vars

\* The scheduler runs the main thread, each tee thread and the shell process
\* whenever they can take a step; the client is free to make no further call.
MainThread ==
    \/ AuxWrite \/ AuxReadOut \/ AuxReadErr \/ CdChdir \/ CdRet \/ PwdRet
    \/ RunWrite \/ TeeStart \/ JoinEnter \/ JoinWait \/ TeeClose
    \/ ExceptClose \/ ExceptRaise \/ RunRc \/ RunLoggerStart \/ InfoCall
    \/ InfoGot \/ RunLoggerSetup \/ RunLoggerAfter \/ RunLoggerRet
    \/ CallerInterrupted \/ DelStep
ShellProcess ==
    ShellReadLine \/ ShellExec \/ ShellCat \/ ShellRead \/ ShellEof

FairSpec ==
    /\ Spec
    /\ WF_vars(MainThread)
    /\ WF_vars(Reader("out"))
    /\ WF_vars(Reader("err"))
    /\ WF_vars(ShellProcess)

\* -------------------------------------------------------------- properties

\* The client calls that execute Shell.run.
RunOps == {"run", "_run", "log"}
\* The last client call was one of `names` and it is over.
Over(names) ==
    pc = "idle" /\ calls > 0 /\ result.n = calls /\ result.of \in names
\* ... and it returned a result.
Returned(names) == Over(names) /\ result.kind = "ok"
\* Every character of a text was read from stream s.
OnlyFrom(t, s) == \A i \in 1..Len(t) : t[i].fd = s
\* Every character of a text was produced by lines of kind `by` of call n.
OnlyBy(t, by, n) == \A i \in 1..Len(t) : t[i].by = by /\ t[i].n = n

\* C1: when a Shell.run call returns on a session whose commands exited
\* cleanly and wrote no 0x04 byte, the stdout text it returns is exactly the
\* text of the bytes its own command wrote to stdout: nothing lost, nothing of
\* an earlier command, no sentinel.
C1_StdoutExact ==
    (Returned({"run", "_run"}) /\ ~hist.eot /\ ~hist.eaten)
        => /\ Codes(result.out) = TextOf(wrote.out)
           /\ OnlyBy(result.out, "cmd", calls)

\* C2: the returncode of every run() result is the exit status of the command
\* of that same call, never a value left by an earlier command.
C2_ReturnCode == Returned(RunOps) => result.rc = fr.st

\* A second call on the session ran `false` and reported 1.
C2_Witness ==
    Returned({"run"}) /\ calls = 2 /\ op.cmd = Cmd_false /\ result.rc = 1

\* C3: characters read from the shell's stderr reach only the stderr sinks and
\* result.stderr, characters read from its stdout only the stdout sinks and
\* result.stdout.
C3_StreamsSeparate ==
    /\ \A s \in {"out", "err"} :
          /\ OnlyFrom(sink[s].console, s)
          /\ OnlyFrom(sink[s].io, s)
          /\ OnlyFrom(sink[s].file, s)
    /\ Returned(RunOps) =>
          OnlyFrom(result.out, "out") /\ OnlyFrom(result.err, "err")

\* `echo hi 1>&2` gave stdout "" and stderr "hi\n".
C3_Witness ==
    /\ Returned({"run"})
    /\ op.cmd = Cmd_echo_err
    /\ result.out = <<>>
    /\ Codes(result.err) = <<104, 105, 10>>

\* The tee thread of stream s found the stream closed, no sentinel read, in
\* the run() of the current call.
Closed(s) == rdEnd[s].by = "eof" /\ fr.n = calls

\* C4: when the shell's stdout or stderr closes before its sentinel was read,
\* run() does not hang (while the call waits in tee the system can still
\* take a step) and does not return a result: the call ends with an error,
\* and a RuntimeError holds the command in its message.  (That the error is
\* never the bare KeyboardInterrupt of the second thread's signal is C29's
\* statement and is not required here.)
C4_ClosedStreamRaises ==
    /\ (pc \in TryPcs /\ (Closed("out") \/ Closed("err"))) => ENABLED Next
    /\ (Over(RunOps) /\ (Closed("out") \/ Closed("err")))
           => /\ result.kind \in {"RuntimeError", "KeyboardInterrupt"}
              /\ result.kind = "RuntimeError" => result.msg = op.cmd

\* No character of a text was produced by lines of kind `by`.
NoneBy(t, by) == \A i \in 1..Len(t) : t[i].by # by
\* Every character (or byte) of t was produced by lines of kind `by`.
AllBy(t, by) == \A i \in 1..Len(t) : t[i].by = by

\* C5: nothing an auxiliary command produced (output or sentinel) ever enters
\* the shell's stdout/stderr pipes, the sinks of a run() or its result, and
\* nothing a run() command or its frame produced ever enters the auxiliary
\* pipes or what auxiliary_command returns.
C5_AuxIsolation ==
    /\ NoneBy(pOut, "aux") /\ NoneBy(pErr, "aux")
    /\ AllBy(pAuxOut, "aux") /\ AllBy(pAuxErr, "aux")
    /\ \A s \in {"out", "err"} :
          /\ NoneBy(sink[s].console, "aux")
          /\ NoneBy(sink[s].io, "aux")
          /\ NoneBy(sink[s].file, "aux")
    /\ AllBy(auxOut, "aux") /\ AllBy(auxErr, "aux")
    /\ Returned(RunOps) =>
          /\ NoneBy(result.out, "aux") /\ NoneBy(result.err, "aux")
          /\ AllBy(result.pwd, "aux")
    /\ Returned({"pwd"}) => AllBy(result.out, "aux")

\* A _run call returned both the command's stdout and the working directory
\* an auxiliary command reported.
C5_Witness ==
    /\ Returned({"_run"})
    /\ op.cmd = Cmd_pwd
    /\ result.out # <<>> /\ AllBy(result.out, "cmd")
    /\ result.pwd # <<>>

\* C6: once a run() has failed with a protocol failure and the error has
\* reached the caller, the session's stdin write end is closed, and no line
\* is written to the shell's stdin afterwards.
C6_StdinClosedAfterFailure == (hist.failed => ~stdinOpen) /\ ~hist.late

\* The tee thread of stream s stopped on the sentinel the current call's
\* frame printed on s.
OnSentinel(s) ==
    /\ reader[s] = "done"
    /\ rdEnd[s].v = END_OF_READ
    /\ rdEnd[s].by = "frame"
    /\ rdEnd[s].fd = s
    /\ rdEnd[s].n = calls
\* Bytes of the current call are still unread in the pipe of stream s.
Unread(s) == \E i \in 1..Len(PipeOf(s)) : PipeOf(s)[i].n = calls

\* C7 as stated: run() returns normally only after both tee threads have
\* consumed their stream's sentinel, leaving nothing of the current command
\* unread.
C7_Original ==
    Returned(RunOps) =>
        \A s \in {"out", "err"} : OnSentinel(s) /\ ~Unread(s)

\* C7, amended: the same, on a session none of whose commands wrote a 0x04
\* byte.
C7_BothSentinels ==
    (Returned(RunOps) /\ ~hist.eot) =>
        \A s \in {"out", "err"} : OnSentinel(s) /\ ~Unread(s)

\* `echo hi` returned after its stdout thread delivered "hi\n".
C7_Witness ==
    /\ Returned({"run"})
    /\ ~hist.eot
    /\ op.cmd = Cmd_echo
    /\ Codes(result.out) = <<104, 105, 10>>
    /\ OnSentinel("out") /\ OnSentinel("err")

\* C8: a pwd() that follows Shell(pwd=p) or a cd(p) that returned gives p;
\* and _run("pwd", pwd=d) returns stdout naming d (on a session no command
\* of which wrote a 0x04 byte) and reports d as the working directory of its
\* auxiliary information.
C8_WorkingDirectory ==
    /\ (Returned({"pwd"}) /\ hist.cd # NoPath)
           => Codes(result.out) = PathText(hist.cd)
    /\ (Returned({"_run"}) /\ op.cmd = Cmd_pwd /\ op.path # NoPath)
           => /\ ~hist.eot => Codes(result.out) = PathText(op.path) \o <<10>>
              /\ Codes(result.pwd) = PathText(op.path)

\* The shell executed the current call's frame once, in order: the command,
\* then one RET_CODE assignment, then one sentinel on stdout, then one on
\* stderr.
FrameOnce ==
    /\ fr.n = calls
    /\ fr.done
    /\ fr.ret = 1 /\ fr.so = 1 /\ fr.se = 1
    /\ fr.ordered

InLog == op.name = "log" /\ pc # "idle"

\* C10: during a log() call with the default stdin redirection, no command
\* consumes a line queued on the shell's stdin and the shell never waits on a
\* command reading its stdin; a log() of `cat` on a session whose shell is
\* running and whose stdin has not been closed ends by returning, with return
\* code 0.
C10_DevnullStdin ==
    /\ [](InLog => shMode \notin {"cat", "read"})
    /\ (InLog /\ op.cmd = Cmd_cat /\ shAlive /\ stdinOpen)
           ~> (Returned({"log"}) /\ result.rc = 0)

\* log("cat") returned with code 0, its frame executed once.
C10_Witness ==
    /\ Returned({"log"})
    /\ op.cmd = Cmd_cat
    /\ result.rc = 0
    /\ FrameOnce
    /\ ~hist.eaten

\* C11: a teardown that is over raised no error and left every descriptor of
\* the session closed: the six ends of the os.pipe() pairs and the read ends
\* of the shell's stdout and stderr; this for a first teardown, a repeated
\* one, and one after run() closed stdin on a failure.
C11_Teardown ==
    Over({"del"}) =>
        /\ result.kind = "ok"
        /\ ~stdinOpen
        /\ \A fd \in OtherFds : ~fdOpen[fd]

\* Commands that end on their own, read nothing from stdin, leave no child
\* behind and write neither a 0x04 byte nor a character split over two writes.
Plain == {Cmd_noop, Cmd_echo, Cmd_echo_err, Cmd_false, Cmd_heredoc}

\* C12: on a session whose earlier calls all returned, run("false") ends by
\* returning, with return code 1; and the run() of a plain command that
\* follows a returned run("false") ends by returning the exit status of its
\* own command and exactly the text its own command wrote to each stream.
C12_NonZeroIsData ==
    /\ (Over({"run"}) /\ hist.ok /\ op.cmd = Cmd_false)
          => (result.kind = "ok" /\ result.rc = 1)
    /\ (/\ Over({"run"})
        /\ hist.ok /\ ~hist.eot
        /\ hist.prev.name = "run" /\ hist.prev.cmd = Cmd_false
        /\ op.cmd \in Plain)
          => /\ result.kind = "ok"
             /\ result.rc = fr.st
             /\ Codes(result.out) = TextOf(wrote.out)
             /\ Codes(result.err) = TextOf(wrote.err)
             /\ OnlyBy(result.out, "cmd", calls)
             /\ OnlyBy(result.err, "cmd", calls)

\* run("false") returned 1, and the run("echo hi") after it returned 0 and
\* "hi\n".
C12_Witness ==
    /\ Returned({"run"})
    /\ calls = 2
    /\ hist.ok
    /\ hist.prev.name = "run" /\ hist.prev.cmd = Cmd_false
    /\ hist.prev.kind = "ok" /\ hist.prev.rc = 1
    /\ op.cmd = Cmd_echo
    /\ result.rc = 0
    /\ Codes(result.out) = <<104, 105, 10>>

\* C13: when the text the `echo $RET_CODE` query returned to run() spells no
\* integer, the statement that parses it raises nothing: a Shell.run call
\* returns a result whose returncode is "N/A", and inside _run the call goes
\* on with "N/A" as the return code.
C13_UnknownReturnCode ==
    [][(pc = "run_rc" /\ ParseInt(auxOut) = NA /\ pc' # pc)
          => IF op.name = "run"
             THEN /\ pc' = "idle"
                  /\ result'.n = calls
                  /\ result'.kind = "ok"
                  /\ result'.rc = NA
             ELSE pc' = "_run_after" /\ loc'.rc = NA]_vars

\* On a new session `read x` took the RET_CODE assignment as its input: the
\* query answered with an empty line and run() returned "N/A".
C13_Witness ==
    /\ Returned({"run"})
    /\ op.cmd = Cmd_read
    /\ Codes(auxOut) = <<10>>
    /\ result.rc = NA

\* The bytes a command wrote to its stdout are not valid UTF-8.
InvalidOut == ~IsUtf8(Tag(wrote.out, "out", "cmd", 0))

\* C14: a run() whose command wrote bytes to stdout that are not valid UTF-8,
\* on a session whose earlier calls all returned and whose commands wrote no
\* 0x04 byte and read no stdin, ends by returning, and the stdout text it
\* returns is the text of the bytes written with the invalid bytes dropped:
\* every valid character around them is there, unchanged.
C14_InvalidBytes ==
    (/\ Over({"run"})
     /\ fr.n = calls
     /\ InvalidOut
     /\ hist.ok /\ ~hist.eot /\ ~hist.eaten)
        => /\ result.kind = "ok"
           /\ Codes(result.out) = TextOf(wrote.out)

\* The bytes 0xFD "Hello\n", written at once, came back as "Hello\n".
C14_Witness ==
    /\ Returned({"run"})
    /\ op.cmd = Cmd_invalid
    /\ InvalidOut
    /\ Codes(result.out) = <<72, 101, 108, 108, 111, 10>>

\* The text of what the current call's command wrote to stream s.
Content(s) == TextOf(IF s = "out" THEN wrote.out ELSE wrote.err)

\* C15: when a log() call returns, on a session whose commands wrote no 0x04
\* byte and read no stdin, then for each stream the console holds the
\* command's text if the stream's live flag was set and nothing otherwise,
\* the per-command file holds the text in every case, the returned stdout
\* and stderr are the text if return_info was set and None otherwise, and
\* the return code is the command's exit status.
C15_Sinks ==
    (Returned({"log"}) /\ ~hist.eot /\ ~hist.eaten)
        => /\ \A s \in {"out", "err"} :
                 /\ Codes(sink[s].console) =
                        IF op.quiet[s] THEN <<>> ELSE Content(s)
                 /\ Codes(sink[s].file) = Content(s)
           /\ result.text = op.str
           /\ Codes(result.out) = IF op.str THEN Content("out") ELSE <<>>
           /\ Codes(result.err) = IF op.str THEN Content("err") ELSE <<>>
           /\ result.rc = fr.st

\* log() with live_stdout only: "hi\n" reached the console and the stdout
\* file, "b\n" the stderr file but not the console, and no text was
\* returned.
C15_Witness ==
    /\ Returned({"log"})
    /\ op.cmd = Cmd_both
    /\ ~op.quiet.out /\ op.quiet.err /\ ~op.str
    /\ Codes(sink.out.console) = <<104, 105, 10>>
    /\ Codes(sink.out.file) = <<104, 105, 10>>
    /\ sink.err.console = <<>>
    /\ Codes(sink.err.file) = <<98, 10>>
    /\ ~result.text
    /\ result.rc = 0

\* C16: when a _run or log call with a pwd argument returns, the shell's
\* working directory is the one the shell had when the call began, whatever
\* the earlier calls of the session did.  (Directories whose names the shell
\* splits are left to C8.)
C16_RestoresCwd ==
    (/\ Returned({"_run", "log"})
     /\ op.path # NoPath
     /\ Len(op.path) = 1 /\ Len(hist.proc0) = 1)
        => shCwd = hist.cwd0

C18_CdInSync == Returned({"cd"}) => shCwd = procCwd

\* cd(Path("/tmp")) returned with both the process and the shell in /tmp.
C18_Witness ==
    /\ Returned({"cd"})
    /\ op.path = <<"/tmp">>
    /\ procCwd = <<"/tmp">>
    /\ shCwd = <<"/tmp">>

\* The names of the registered samplers.
Samplers ==
    {StatsCollector_subclasses[i] : i \in 1..Len(StatsCollector_subclasses)}

\* C19: a _run call that asks for a sampler name no registered collector
\* bears does not return a result: the name is reported as an error.
C19_UnknownSampler ==
    (Over({"_run"}) /\ ~(op.measure \subseteq Samplers)) => result.kind # "ok"

\* _run(measure=["cpu"]) returned with the statistics of the cpu sampler.
C19_Witness ==
    /\ Returned({"_run"})
    /\ op.measure = {"cpu"}
    /\ ~result.stats.none
    /\ DOMAIN result.stats.map = {"cpu"}

\* The tracer lookup of the current call, and whether it fails.
Lookup == trace_collector(op.trace, op.subclasses)
BadTracer == op.trace # NoTrace /\ Lookup.error # <<>>

MissingTracer ==
    /\ op.trace # NoTrace
    /\ Lookup.error = <<>>
    /\ Lookup.collector \notin disk.bin

\* C21: a _run that asks for a registered tracer whose executable is missing
\* ends with a configuration error raised at setup: the frame of the call is
\* never written to the shell, so the wrapped command is never run.
C21_MissingTracer ==
    (Over({"_run"}) /\ hist.ok /\ MissingTracer)
        => (result.kind = "RuntimeError" /\ fr.n # calls)

\* _run(trace="strace") without strace on PATH ran the wrapped command, which
\* the shell did not find, and then failed to open the trace file.
C21_Witness ==
    /\ Over({"_run"})
    /\ hist.ok
    /\ MissingTracer
    /\ result.kind = "FileNotFoundError"
    /\ fr.n = calls
    /\ fr.st = 127

\* ---------------------------------------------------------------- C22

\* The tracer of the current call is registered under one name only and its
\* executable is on PATH; the process was in a directory whose name the
\* shell does not split when the call began.
GoodTracer ==
    /\ op.trace # NoTrace
    /\ Lookup.error = <<>>
    /\ Lookup.collector \in disk.bin
    /\ Len(hist.proc0) = 1

\* C22: a _run with a tracer returns a result that records the tracer's
\* output path, and whose trace is the text the tracer wrote for the command
\* of this call when trace_str was set and None otherwise; a _run without a
\* tracer returns neither a trace path nor a trace.
C22_TraceResult ==
    /\ (Over({"_run"}) /\ hist.ok /\ GoodTracer)
          => /\ result.kind = "ok"
             /\ result.trace_path = TraceOut(trace_args(op.trace))
             /\ result.trace = IF op.trace_str
                               THEN [n |-> calls, cmd |-> op.cmd[1]]
                               ELSE NoTraceText
    /\ (Returned({"_run"}) /\ op.trace = NoTrace)
          => (result.trace_path = NoPath /\ result.trace = NoTraceText)

\* After `cd /tmp` was run in the shell, a traced _run ran its command, the
\* tracer wrote its file in the shell's directory, and _run failed to open
\* the file in the directory of the process.
C22_Witness ==
    /\ Over({"_run"})
    /\ hist.ok
    /\ GoodTracer
    /\ hist.prev.cmd = Cmd_cd_tmp
    /\ result.kind = "FileNotFoundError"
    /\ \E f \in disk.logs : f.dir = <<"/tmp">> /\ f.text.n = calls

\* ---------------------------------------------------------------- C23

\* C23: the stats of a _run result are None when the call asked for no
\* sampler; otherwise they are a mapping whose keys are the requested names
\* that are registered, each with what that collector's finish() returned.
C23_Stats ==
    Returned({"_run"})
        => IF op.measure = {}
           THEN result.stats = NoStats
           ELSE /\ ~result.stats.none
                /\ DOMAIN result.stats.map = op.measure \cap Samplers
                /\ \A c \in DOMAIN result.stats.map :
                      result.stats.map[c] = finish(c)

\* _run(measure=["bogus"]) returned with stats None.
C23_Witness ==
    /\ Returned({"_run"})
    /\ op.measure = {"bogus"}
    /\ result.stats = NoStats

\* ------------------------------------------- a collector beside a command

\* Time is counted in ticks of 50 ms.  The delays the code does not fix are
\* bounded: Process.start() has the collector's loop running within MaxStart
\* ticks; one turn of the loop (collect() and the wake-up after sleep) takes
\* at most MaxLate ticks more than the interval; _run takes at most MaxPre
\* ticks from starting the collector to the command's start and at most
\* MaxPost ticks from the command's end to finish().
TicksPerSecond == 20
MaxStart == 2
MaxLate == 1
MaxPre == 1
MaxPost == 1

\* interval = 0.1 s or 0.25 s, beside a command of 0.5 s or 1 s.
Intervals == {2, 5}
Durations == {10, 20}

\* _run(command, measure=[name], interval=i) with a command that runs for d.
SamplerInit ==
    /\ Session0
    /\ Apart({"sampler"})
    /\ \E i \in Intervals, d \in Durations :
          sampler = [NoSampler EXCEPT !.state = "new", !.interval = i,
                                      !.duration = d]

\* StatsCollector.start(): the process is created; its loop makes its first
\* turn within MaxStart.  _run goes on to shell.run().
StatsCollector_start ==
    /\ sampler.state = "new"
    /\ sampler' = [sampler EXCEPT !.state = "before",
                                  !.t0 = sampler.now,
                                  !.due = sampler.now,
                                  !.latest = sampler.now + MaxStart,
                                  !.by = sampler.now + MaxPre]
    /\ UNCHANGED besidesSampler

\* A loop that never sleeps.
loop_busy ==
    /\ sampler.state \in {"before", "running", "after"}
    /\ sampler.now >= sampler.due
    /\ sampler.samples < 40
    /\ sampler' = [sampler EXCEPT !.samples = @ + 1,
                                  !.due = sampler.now,
                                  !.latest = sampler.now + MaxLate]
    /\ UNCHANGED besidesSampler

\* One turn of StatsCollector.loop: collect() appends a sample, then
\* sleep(self.interval).
loop ==
    /\ sampler.state \in {"before", "running", "after"}
    /\ sampler.now >= sampler.due
    /\ sampler' = [sampler EXCEPT
                      !.samples = @ + 1,
                      !.due = sampler.now + sampler.interval,
                      !.latest = sampler.now + sampler.interval + MaxLate]
    /\ UNCHANGED besidesSampler

\* shell.run(command) starts the command, which runs for its duration.
RunBegins ==
    /\ sampler.state = "before"
    /\ sampler' = [sampler EXCEPT !.state = "running",
                                  !.by = sampler.now + sampler.duration]
    /\ UNCHANGED besidesSampler

\* The command ends and shell.run returns.
RunEnds ==
    /\ sampler.state = "running"
    /\ sampler.now = sampler.by
    /\ sampler' = [sampler EXCEPT !.state = "after",
                                  !.by = sampler.now + MaxPost]
    /\ UNCHANGED besidesSampler

\* StatsCollector.finish(): the process is terminated wherever its loop is,
\* and the samples appended so far are returned.
StatsCollector_finish ==
    /\ sampler.state = "after"
    /\ sampler' = [sampler EXCEPT !.state = "finished",
                                  !.done = sampler.now]
    /\ UNCHANGED besidesSampler

\* A tick passes, unless the loop or _run must take a step first.
Tick ==
    /\ sampler.state \in {"before", "running", "after"}
    /\ sampler.now < sampler.latest
    /\ sampler.now < sampler.by
    /\ sampler' = [sampler EXCEPT !.now = @ + 1]
    /\ UNCHANGED besidesSampler

SamplerNext ==
    \/ StatsCollector_start
    \/ loop
    \/ RunBegins
    \/ RunEnds
    \/ StatsCollector_finish
    \/ Tick

SamplerSpec == SamplerInit /\ [][SamplerNext]_vars

\* ---------------------------------------------------------------- C24

\* The time between start() and finish().
Elapsed == sampler.done - sampler.t0

Classes == {"Shell", "Sub", "Other"}
Bases(cls) == IF cls = "Shell" THEN {"Shell", "object"}
              ELSE {cls, "Shell", "object"}
isinstance(obj, cls) == cls \in Bases(obj.class)
issubclass(c, d) == d \in Bases(c)

\* Shell.pwd() of a session whose shell is in directory cwd: the stripped
\* output of `pwd`.
pwd(obj) ==
    Codes(Strip(DecodeIgnore(Tag(JoinWords(obj.cwd) \o <<10>>,
                                 "auxout", "aux", 0))))

\* Shell.__eq__(self, other)
Shell_eq(self, other) ==
    isinstance(self, other.class) /\ pwd(self) = pwd(other)

\* v == w as the interpreter evaluates it: when the type of w is a proper
\* subclass of the type of v, the __eq__ of w is tried first, with the
\* operands swapped; Shell.__eq__ always answers, so the first method tried
\* decides.
Equals(v, w) ==
    IF v.class # w.class /\ issubclass(w.class, v.class)
    THEN Shell_eq(w, v)
    ELSE Shell_eq(v, w)

\* Two sessions are constructed, each of some class and in some directory.
PairInit ==
    /\ Session0
    /\ Apart({"pair"})
    /\ \E ca \in Classes, cb \in Classes, da \in Dirs, db \in Dirs :
          pair = [state |-> "made",
                  a |-> [class |-> ca, cwd |-> da],
                  b |-> [class |-> cb, cwd |-> db],
                  ab |-> FALSE, ba |-> FALSE]

\* Shell.cd(path) on one of the two, the shell following.
PairCd ==
    /\ pair.state \in {"made", "compared"}
    /\ \E d \in Dirs :
          \/ pair' = [pair EXCEPT !.state = "made", !.a.cwd = d,
                                  !.ab = FALSE, !.ba = FALSE]
          \/ pair' = [pair EXCEPT !.state = "made", !.b.cwd = d,
                                  !.ab = FALSE, !.ba = FALSE]
    /\ UNCHANGED besidesPair

\* The client evaluates a == b and b == a.
PairCompare ==
    /\ pair.state = "made"
    /\ pair' = [pair EXCEPT !.state = "compared",
                            !.ab = Equals(pair.a, pair.b),
                            !.ba = Equals(pair.b, pair.a)]
    /\ UNCHANGED besidesPair

PairNext == PairCd \/ PairCompare

PairSpec == PairInit /\ [][PairNext]_vars

\* ---------------------------------------------------------------- C25

\* C25: two sessions compare equal exactly when they are of the same
\* concrete type and have the same pwd(), and a == b exactly when b == a.
C25_Equality ==
    pair.state = "compared"
        => /\ pair.ab = (pair.a.class = pair.b.class
                         /\ pwd(pair.a) = pwd(pair.b))
           /\ pair.ab = pair.ba

\* A Shell and an instance of a class derived from Shell, both in /tmp,
\* compared equal.
C25_Witness ==
    /\ pair.state = "compared"
    /\ pair.a.class = "Shell"
    /\ pair.b.class = "Sub"
    /\ pair.a.cwd = <<"/tmp">>
    /\ pair.b.cwd = <<"/tmp">>
    /\ pair.ab
    /\ pair.ba

\* ------------------------------------------------- a tree of ShellLoggers

\* Paths are sequences of components; an absolute path starts with "/".
\* The controlling process stays in TreeCwd.
TreeCwd == <<"/", "w">>

LogDirs == { <<"/", "L1">>, <<"/", "L2">>, <<"rel">> }

MaxLoggers == 3
MaxBook == 2

\* Path.resolve(): an absolute path stands for itself, a relative one is
\* taken from the working directory.
resolve(p) == IF p # <<>> /\ p[1] = "/" THEN p ELSE TreeCwd \o p

\* Path.exists() on the directories of the tree's file system.
exists(t, p) == resolve(p) \in t.fs

IsUnder(p, base) ==
    /\ Len(base) <= Len(p)
    /\ SubSeq(p, 1, Len(base)) = base

\* Path.relative_to(): the rest of p below base (the caller checks IsUnder;
\* pathlib raises ValueError otherwise).
relative_to(p, base) == SubSeq(p, Len(base) + 1, Len(p))

is_parent(self) == self.indent = 0

\* ShellLogger.__init__ for the fields change_log_dir works on.
ShellLogger(name, log_dir, stream_dir, html_file, indent) ==
    LET sd == IF stream_dir = <<>>
              THEN resolve(log_dir) \o <<"stream">>
              ELSE resolve(stream_dir)
    IN  [name |-> name,
         indent |-> indent,
         log_dir |-> resolve(log_dir),
         stream_dir |-> sd,
         html_file |-> IF html_file = <<>> THEN sd \o <<name>>
                       ELSE resolve(html_file),
         log_book |-> <<>>]

NoTreeCall == [op |-> "none", on |-> 0, dir |-> <<>>, raised |-> "None",
               before |-> <<>>, fs |-> {}]

RECURSIVE change_log_dir(_, _, _)
RECURSIVE change_children(_, _, _)

\* the loop over self.log_book from entry k on; stops at the first error
change_children(t, self, k) ==
    LET book == t.loggers[self].log_book
    IN  IF k > Len(book) THEN [t |-> t, raised |-> "None"]
        ELSE IF ~book[k].logger THEN change_children(t, self, k + 1)
        ELSE LET r == change_log_dir(t, book[k].id, t.loggers[self].log_dir)
             IN  IF r.raised # "None" THEN r
                 ELSE change_children(r.t, self, k + 1)

change_log_dir(t, self, new_log_dir) ==
    LET me == t.loggers[self]
        copied == IF exists(t, me.log_dir)
                  THEN [t EXCEPT !.fs = (@ \cup {resolve(new_log_dir)})
                                        \ {me.log_dir}]
                  ELSE t
    IN  IF ~is_parent(me) THEN [t |-> t, raised |-> "RuntimeError"]
        ELSE IF ~IsUnder(me.stream_dir, me.log_dir)
        THEN [t |-> copied, raised |-> "ValueError"]
        ELSE LET moved == [me EXCEPT
                   !.stream_dir = new_log_dir \o relative_to(@, me.log_dir),
                   !.html_file = new_log_dir \o relative_to(@, me.log_dir),
                   !.log_dir = resolve(new_log_dir)]
             IN  change_children([copied EXCEPT !.loggers[self] = moved],
                                 self, 1)

TreeInit ==
    /\ Session0
    /\ Apart({"tree"})
    /\ \E d \in LogDirs :
         LET t0 == [state |-> "open", loggers |-> <<>>, fs |-> {resolve(d)},
                    last |-> NoTreeCall]
         IN  tree = [t0 EXCEPT !.loggers =
                        <<ShellLogger("parent", d, <<>>, <<>>, 0)>>]

\* logger.add_child(child_name)
add_child(self) ==
    /\ tree.state = "open"
    /\ self \in DOMAIN tree.loggers
    /\ Len(tree.loggers) < MaxLoggers
    /\ Len(tree.loggers[self].log_book) < MaxBook
    /\ LET me == tree.loggers[self]
           id == Len(tree.loggers) + 1
           child == ShellLogger("child", me.log_dir, me.stream_dir,
                                me.html_file, me.indent + 1)
       IN  tree' = [tree EXCEPT
               !.fs = @ \cup {child.log_dir},
               !.loggers = Append([@ EXCEPT ![self].log_book =
                                      Append(@, [logger |-> TRUE, id |-> id])],
                                  child),
               !.last = [NoTreeCall EXCEPT !.op = "add_child", !.on = self]]
    /\ UNCHANGED besidesTree

\* logger.log(...): a command's entry joins the log_book
TreeLog(self) ==
    /\ tree.state = "open"
    /\ self \in DOMAIN tree.loggers
    /\ Len(tree.loggers[self].log_book) < MaxBook
    /\ tree' = [tree EXCEPT
           !.loggers[self].log_book = Append(@, [logger |-> FALSE, id |-> 0]),
           !.last = [NoTreeCall EXCEPT !.op = "log", !.on = self]]
    /\ UNCHANGED besidesTree

\* logger.change_log_dir(new_log_dir), as the client calls it
CallChangeLogDir(self, new_log_dir) ==
    /\ tree.state = "open"
    /\ self \in DOMAIN tree.loggers
    /\ LET r == change_log_dir(tree, self, new_log_dir)
       IN  tree' = [r.t EXCEPT
               !.last = [op |-> "change_log_dir", on |-> self,
                         dir |-> new_log_dir, raised |-> r.raised,
                         before |-> tree.loggers, fs |-> tree.fs]]
    /\ UNCHANGED besidesTree

TreeNext ==
    \/ \E i \in 1..MaxLoggers : add_child(i)
    \/ \E i \in 1..MaxLoggers : TreeLog(i)
    \/ \E i \in 1..MaxLoggers, d \in LogDirs : CallChangeLogDir(i, d)

TreeSpec == TreeInit /\ [][TreeNext]_vars

\* the loggers below logger i, through the log_books
RECURSIVE Below(_, _)
Below(t, i) ==
    LET kids == {t.loggers[i].log_book[k].id :
                   k \in {k \in DOMAIN t.loggers[i].log_book :
                             t.loggers[i].log_book[k].logger}}
    IN  kids \cup UNION {Below(t, j) : j \in kids}

InDir(l, d) ==
    /\ l.log_dir = resolve(d)
    /\ IsUnder(resolve(l.stream_dir), resolve(d))
    /\ IsUnder(resolve(l.html_file), resolve(d))

\* C26: change_log_dir on a parent moves the parent and every logger below
\* it to the new directory and raises nothing, also when the parent has
\* children; on a child it raises RuntimeError and changes nothing.
C26_ChangeLogDir ==
    tree.state = "open" /\ tree.last.op = "change_log_dir" =>
        LET c == tree.last
        IN  IF is_parent(c.before[c.on])
            THEN /\ c.raised = "None"
                 /\ \A i \in {c.on} \cup Below(tree, c.on) :
                        InDir(tree.loggers[i], c.dir)
            ELSE /\ c.raised = "RuntimeError"
                 /\ tree.loggers = c.before
                 /\ tree.fs = c.fs

\* a parent with one child was moved from /L1 to /L2: the call raised
\* RuntimeError with the parent in /L2 and the child left in /L1
C26_Witness ==
    /\ tree.state = "open"
    /\ tree.last.op = "change_log_dir"
    /\ tree.last.on = 1
    /\ tree.last.dir = <<"/", "L2">>
    /\ Len(tree.loggers) = 2
    /\ tree.last.before[1].log_dir = <<"/", "L1">>
    /\ IsUnder(tree.last.before[1].stream_dir, <<"/", "L1">>)
    /\ tree.last.raised = "RuntimeError"
    /\ tree.loggers[1].log_dir = <<"/", "L2">>
    /\ tree.loggers[2].log_dir = <<"/", "L1">>
    /\ tree.loggers[2].stream_dir = <<"/", "L1", "stream">>

\* ------------------------------------------- a logger written to JSON

\* Python objects, tagged with their type.  A str is its sequence of
\* tokens (digits and separators apart, other words whole); a Path is its
\* sequence of parts; a float is kept in hundredths.
PyNone == [t |-> "None"]
PyInt(n) == [t |-> "int", v |-> n]
PyFloat(n) == [t |-> "float", v |-> n]
PyBool(b) == [t |-> "bool", v |-> b]
PyStr(s) == [t |-> "str", v |-> s]
PyTuple(items) == [t |-> "tuple", v |-> items]
PyList(items) == [t |-> "list", v |-> items]
PyDict(f) == [t |-> "dict", v |-> f]
PyPath(parts) == [t |-> "Path", v |-> parts]
PyDatetime(r) == [t |-> "datetime", v |-> r]
PyShell(cwd, login) == [t |-> "Shell", v |-> [pwd |-> cwd, login_shell |-> login]]
PyLogger(attrs) == [t |-> "ShellLogger", v |-> attrs]

\* JSON text, as the values it denotes.
JNull == [j |-> "null"]
JBool(b) == [j |-> "bool", v |-> b]
JNum(n, real) == [j |-> "number", v |-> n, real |-> real]
JStr(s) == [j |-> "string", v |-> s]
JArr(items) == [j |-> "array", v |-> items]
JObj(f) == [j |-> "object", v |-> f]

DigitChars == <<"0", "1", "2", "3", "4", "5", "6", "7", "8", "9">>

IsDigitChar(c) == \E d \in 1..10 : DigitChars[d] = c

DigitOf(c) == (CHOOSE d \in 1..10 : DigitChars[d] = c) - 1

\* "%0wd" % n
RECURSIVE Pad(_, _)
Pad(n, w) == IF w = 0 THEN <<>> ELSE Pad(n \div 10, w - 1) \o <<DigitChars[(n % 10) + 1]>>

RECURSIVE NumberOf(_)
NumberOf(ds) ==
    IF ds = <<>> THEN 0
    ELSE 10 * NumberOf(SubSeq(ds, 1, Len(ds) - 1)) + DigitOf(ds[Len(ds)])

TimeFormat == <<"%Y", "-", "%m", "-", "%d", "_", "%H", ":", "%M", ":", "%S", ":", "%f">>

StampFormat == <<"%Y", "-", "%m", "-", "%d", "_", "%H", "%M", "%S">>

FieldOf(directive) ==
    CASE directive = "%Y" -> [name |-> "year", width |-> 4]
      [] directive = "%m" -> [name |-> "month", width |-> 2]
      [] directive = "%d" -> [name |-> "day", width |-> 2]
      [] directive = "%H" -> [name |-> "hour", width |-> 2]
      [] directive = "%M" -> [name |-> "minute", width |-> 2]
      [] directive = "%S" -> [name |-> "second", width |-> 2]
      [] directive = "%f" -> [name |-> "microsecond", width |-> 6]
      [] OTHER -> [name |-> "", width |-> 0]

\* datetime.strftime(fmt)
RECURSIVE strftime(_, _)
strftime(d, fmt) ==
    IF fmt = <<>> THEN <<>>
    ELSE LET f == FieldOf(fmt[1])
         IN  (IF f.width = 0 THEN <<fmt[1]>> ELSE Pad(d[f.name], f.width))
             \o strftime(d, Tail(fmt))

\* the longest run of digits at the head of s, at most w long
RECURSIVE DigitRun(_, _)
DigitRun(s, w) ==
    IF w = 0 \/ s = <<>> \/ ~IsDigitChar(s[1]) THEN <<>>
    ELSE <<s[1]>> \o DigitRun(Tail(s), w - 1)

RECURSIVE Scale(_, _)
Scale(n, k) == IF k = 0 THEN n ELSE Scale(10 * n, k - 1)

NoTime == [year |-> 1900, month |-> 1, day |-> 1, hour |-> 0, minute |-> 0,
           second |-> 0, microsecond |-> 0]

\* datetime.strptime(s, fmt): the fields read so far are in acc; the
\* result is PyNone where strptime raises ValueError.
RECURSIVE strptime_from(_, _, _)
strptime_from(s, fmt, acc) ==
    IF fmt = <<>> THEN (IF s = <<>> THEN PyDatetime(acc) ELSE PyNone)
    ELSE LET f == FieldOf(fmt[1])
         IN  IF f.width = 0
             THEN IF s # <<>> /\ s[1] = fmt[1]
                  THEN strptime_from(Tail(s), Tail(fmt), acc)
                  ELSE PyNone
             ELSE LET ds == DigitRun(s, f.width)
                      n == IF f.name = "microsecond"
                           THEN Scale(NumberOf(ds), 6 - Len(ds))
                           ELSE NumberOf(ds)
                  IN  IF ds = <<>> \/ (f.name = "year" /\ Len(ds) < 4)
                      THEN PyNone
                      ELSE strptime_from(SubSeq(s, Len(ds) + 1, Len(s)),
                                         Tail(fmt),
                                         [acc EXCEPT ![f.name] = n])

strptime(s, fmt) == strptime_from(s, fmt, NoTime)

RECURSIVE JoinSlash(_)
JoinSlash(ps) ==
    IF Len(ps) <= 1 THEN ps ELSE <<ps[1], "/">> \o JoinSlash(Tail(ps))

\* str(path)
PathStr(parts) ==
    IF parts = <<>> THEN <<".">>
    ELSE IF parts[1] = "/" THEN <<"/">> \o JoinSlash(Tail(parts))
    ELSE JoinSlash(parts)

\* Path(s)
PathOf(s) ==
    (IF s # <<>> /\ s[1] = "/" THEN <<"/">> ELSE <<>>)
    \o SelectSeq(s, LAMBDA c : c # "/" /\ c # ".")

Word(w) == PyStr(<<w>>)

\* {**a, **b}: the keys of b win
Merge(a, b) == b @@ a

\* ShellLoggerEncoder.default, the checks in the order of the code
RECURSIVE default(_)
default(obj) ==
    CASE obj.t = "ShellLogger" ->
           PyDict(Merge("__type__" :> Word("ShellLogger"),
                        [k \in DOMAIN obj.v |-> default(obj.v[k])]))
      [] obj.t \in {"int", "float", "str", "bool"} -> obj
      [] obj.t = "dict" -> PyDict([k \in DOMAIN obj.v |-> default(obj.v[k])])
      [] obj.t = "tuple" ->
           PyDict(("__type__" :> Word("tuple")) @@ ("items" :> obj))
      [] obj.t = "list" ->
           PyList([i \in DOMAIN obj.v |-> default(obj.v[i])])
      [] obj.t = "datetime" ->
           PyDict(("__type__" :> Word("datetime"))
                  @@ ("value" :> PyStr(strftime(obj.v, TimeFormat)))
                  @@ ("format" :> PyStr(TimeFormat)))
      [] obj.t = "Path" ->
           PyDict(("__type__" :> Word("Path"))
                  @@ ("value" :> PyStr(PathStr(obj.v))))
      [] obj.t = "None" -> PyNone
      [] obj.t = "Shell" ->
           PyDict(("__type__" :> Word("Shell"))
                  @@ ("pwd" :> PyStr(PathStr(obj.v.pwd)))
                  @@ ("login_shell" :> PyBool(obj.v.login_shell)))

\* json.dump(obj, cls=ShellLoggerEncoder): what JSON writes by itself, and
\* default() for the rest
RECURSIVE dump(_)
dump(obj) ==
    CASE obj.t = "None" -> JNull
      [] obj.t = "bool" -> JBool(obj.v)
      [] obj.t = "int" -> JNum(obj.v, FALSE)
      [] obj.t = "float" -> JNum(obj.v, TRUE)
      [] obj.t = "str" -> JStr(obj.v)
      [] obj.t \in {"list", "tuple"} ->
           JArr([i \in DOMAIN obj.v |-> dump(obj.v[i])])
      [] obj.t = "dict" -> JObj([k \in DOMAIN obj.v |-> dump(obj.v[k])])
      [] OTHER -> dump(default(obj))

\* the attributes ShellLogger.__init__ sets, the paths taken from l
Attrs(l, name, login_shell, log, init_time, done_time, duration) ==
    PyLogger([name |-> name,
              log_book |-> log,
              init_time |-> init_time,
              done_time |-> done_time,
              duration |-> duration,
              indent |-> PyInt(l.indent),
              login_shell |-> login_shell,
              shell |-> PyShell(TreeCwd, login_shell.v),
              log_dir |-> PyPath(l.log_dir),
              stream_dir |-> PyPath(l.stream_dir),
              html_file |-> PyPath(l.html_file)])

\* ShellLogger.__init__ as the decoder calls it, with the keyword
\* arguments in kw
LoggerObj(kw) ==
    Attrs(ShellLogger(kw.name.v[1], kw.log_dir.v, kw.stream_dir.v,
                      kw.html_file.v, kw.indent.v),
          kw.name, kw.login_shell, kw.log, kw.init_time, kw.done_time,
          kw.duration)

\* ShellLoggerDecoder.dict_to_object
dict_to_object(obj) ==
    LET d == obj.v
    IN  IF "__type__" \notin DOMAIN d THEN obj
        ELSE CASE d["__type__"] = Word("ShellLogger") ->
                    LoggerObj([name |-> d["name"],
                               log_dir |-> d["log_dir"],
                               stream_dir |-> d["stream_dir"],
                               html_file |-> d["html_file"],
                               indent |-> d["indent"],
                               login_shell |-> d["login_shell"],
                               log |-> d["log_book"],
                               init_time |-> d["init_time"],
                               done_time |-> d["done_time"],
                               duration |-> d["duration"]])
               [] d["__type__"] = Word("datetime") ->
                    strptime(d["value"].v, d["format"].v)
               [] d["__type__"] = Word("Path") -> PyPath(PathOf(d["value"].v))
               [] d["__type__"] = Word("tuple") -> PyTuple(d["items"].v)
               [] d["__type__"] = Word("Shell") ->
                    PyShell(PathOf(d["pwd"].v), d["login_shell"].v)
               [] OTHER -> PyNone

\* json.load(text, cls=ShellLoggerDecoder): the hook is applied to every
\* object, innermost first
RECURSIVE load(_)
load(text) ==
    CASE text.j = "null" -> PyNone
      [] text.j = "bool" -> PyBool(text.v)
      [] text.j = "number" ->
           IF text.real THEN PyFloat(text.v) ELSE PyInt(text.v)
      [] text.j = "string" -> PyStr(text.v)
      [] text.j = "array" -> PyList([i \in DOMAIN text.v |-> load(text.v[i])])
      [] text.j = "object" ->
           dict_to_object(PyDict([k \in DOMAIN text.v |-> load(text.v[k])]))

MaxClock == 3

\* datetime.now() at tick n of the clock
Now(n) ==
    PyDatetime([year |-> 2026, month |-> 11, day |-> 4, hour |-> 9,
                minute |-> 5, second |-> 7 * n,
                microsecond |-> <<0, 7, 120000, 999999>>[n + 1]])

\* str(datetime)
isoformat(d) ==
    Pad(d.year, 4) \o <<"-">> \o Pad(d.month, 2) \o <<"-">> \o Pad(d.day, 2)
    \o <<" ">> \o Pad(d.hour, 2) \o <<":">> \o Pad(d.minute, 2)
    \o <<":">> \o Pad(d.second, 2)
    \o (IF d.microsecond = 0 THEN <<>> ELSE <<".">> \o Pad(d.microsecond, 6))

\* ShellLogger.strfdelta(done - init, "{hrs}h {min}m {sec}s")
strfdelta(init, done) ==
    <<"0", "h", " ", "0", "m", " ">>
    \o Pad(done.second - init.second, 2) \o <<"s">>

\* the log_book entry print() makes
PrintEntry(n) ==
    PyDict([msg |-> Word("hello"), timestamp |-> PyStr(isoformat(Now(n).v)),
            cmd |-> PyNone])

\* the statistics a command's entry can carry: none, cpu samples, or disk
\* samples by mount point; a sample is the tuple (timestamp, value)
StatsChoices ==
    { PyNone,
      PyDict([cpu |-> PyList(<<PyTuple(<<PyFloat(150), PyFloat(1250)>>),
                               PyTuple(<<PyFloat(160), PyFloat(0)>>)>>)]),
      PyDict([disk |-> PyDict("/" :> PyList(<<PyTuple(<<PyFloat(150),
                                                       PyFloat(300)>>)>>))]) }

CwdChoices == { PyNone, PyPath(<<"/", "tmp">>) }

\* the log_book entry log() makes, with what _run returned
LogEntry(n, stats, cwd) ==
    PyDict([msg |-> Word("m"),
            duration |-> PyStr(<<"0", "h", " ", "0", "m", " ", "0", "s">>),
            timestamp |-> PyStr(strftime(Now(n).v, StampFormat)),
            cmd |-> PyStr(<<"echo", " ", "hi">>),
            cwd |-> cwd,
            return_code |-> PyInt(0),
            wall |-> PyInt(12),
            stats |-> stats,
            trace_path |-> IF stats = PyNone THEN PyNone
                           ELSE PyPath(<<"/", "L1", "stream", "trace">>)])

HasChild(obj) ==
    /\ obj.v.log_book.v # <<>>
    /\ obj.v.log_book.v[Len(obj.v.log_book.v)].t = "ShellLogger"

\* the log_book of the parent ("parent") or of its newest child ("child")
BookOf(obj, who) ==
    IF who = "parent" THEN obj.v.log_book.v
    ELSE obj.v.log_book.v[Len(obj.v.log_book.v)].v.log_book.v

Append_to(obj, who, entry) ==
    IF who = "parent"
    THEN [obj EXCEPT !.v.log_book.v = Append(@, entry)]
    ELSE [obj EXCEPT !.v.log_book.v[Len(obj.v.log_book.v)].v.log_book.v =
              Append(@, entry)]

CanAppend(who) ==
    /\ doc.state = "open"
    /\ who = "child" => HasChild(doc.obj)
    /\ Len(BookOf(doc.obj, who)) < MaxBook

Tock == IF doc.now < MaxClock THEN doc.now + 1 ELSE doc.now

\* a parent logger, newly made in d and, when mv names a directory, moved
\* there by change_log_dir
DocInit ==
    /\ Session0
    /\ Apart({"doc"})
    /\ \E d \in LogDirs, mv \in LogDirs \cup {<<>>}, login \in BOOLEAN :
         LET made == ShellLogger("Parent", d, <<>>, <<>>, 0)
             t0 == [state |-> "open", loggers |-> <<made>>,
                    fs |-> {resolve(d)}, last |-> NoTreeCall]
             l == IF mv = <<>> THEN made
                  ELSE change_log_dir(t0, 1, mv).t.loggers[1]
         IN  doc = [state |-> "open",
                    now |-> 0,
                    obj |-> Attrs(l, Word("Parent"), PyBool(login),
                                  PyList(<<>>), Now(0), Now(0), PyNone),
                    text |-> JNull,
                    loaded |-> PyNone]

\* logger.print(msg)
DocPrint(who) ==
    /\ CanAppend(who)
    /\ doc' = [doc EXCEPT !.obj = Append_to(@, who, PrintEntry(doc.now)),
                          !.now = Tock]
    /\ UNCHANGED besidesDoc

\* logger.log(msg, cmd, cwd=..., measure=...)
DocLog(who, stats, cwd) ==
    /\ CanAppend(who)
    /\ doc' = [doc EXCEPT
           !.obj = Append_to(@, who, LogEntry(doc.now, stats, cwd)),
           !.now = Tock]
    /\ UNCHANGED besidesDoc

\* parent.add_child(name)
DocAddChild ==
    /\ CanAppend("parent")
    /\ LET me == doc.obj.v
           l == ShellLogger("Child", me.log_dir.v, me.stream_dir.v,
                            me.html_file.v, me.indent.v + 1)
           child == Attrs(l, Word("Child"), me.login_shell, PyList(<<>>),
                          Now(doc.now), Now(doc.now), PyNone)
       IN  doc' = [doc EXCEPT !.obj = Append_to(@, "parent", child),
                              !.now = Tock]
    /\ UNCHANGED besidesDoc

\* to_html: a child without a duration gets its done_time and duration
Finished(entry, n) ==
    IF entry.t = "ShellLogger" /\ entry.v.duration = PyNone
    THEN [entry EXCEPT
             !.v.done_time = Now(n),
             !.v.duration = PyStr(strfdelta(entry.v.init_time.v, Now(n).v))]
    ELSE entry

\* parent.finalize(): the log is written, then the JSON file
finalize ==
    /\ doc.state = "open"
    /\ LET obj == [doc.obj EXCEPT !.v.log_book.v =
                      [i \in DOMAIN @ |-> Finished(@[i], doc.now)]]
       IN  doc' = [doc EXCEPT !.state = "dumped", !.obj = obj,
                              !.text = dump(obj)]
    /\ UNCHANGED besidesDoc

\* json.load(jf, cls=ShellLoggerDecoder)
DocLoad ==
    /\ doc.state = "dumped"
    /\ doc' = [doc EXCEPT !.state = "loaded", !.loaded = load(doc.text)]
    /\ UNCHANGED besidesDoc

DocNext ==
    \/ \E who \in {"parent", "child"} : DocPrint(who)
    \/ \E who \in {"parent", "child"}, st \in StatsChoices, cwd \in CwdChoices :
           DocLog(who, st, cwd)
    \/ DocAddChild
    \/ finalize
    \/ DocLoad

DocSpec == DocInit /\ [][DocNext]_vars

CompareFields ==
    {"name", "log_dir", "stream_dir", "html_file", "indent", "init_time",
     "done_time"}

\* the comparison of the test: the fields, and the log_book entry by entry,
\* a child logger by the same comparison
RECURSIVE SameLogger(_, _)
SameLogger(a, b) ==
    /\ b.t = "ShellLogger"
    /\ \A f \in CompareFields : a.v[f] = b.v[f]
    /\ b.v.log_book.t = "list"
    /\ Len(a.v.log_book.v) = Len(b.v.log_book.v)
    /\ \A i \in DOMAIN a.v.log_book.v :
         LET x == a.v.log_book.v[i]
             y == b.v.log_book.v[i]
         IN  IF x.t = "ShellLogger" THEN SameLogger(x, y)
             ELSE x.t = y.t /\ x = y

\* C27: a finalized parent logger written to JSON and decoded again equals
\* the original in name, log_dir, stream_dir, html_file, indent, init_time,
\* done_time and every log_book entry, and so does each child logger in
\* its log_book.
C27_RoundTrip == doc.state = "loaded" => SameLogger(doc.obj, doc.loaded)

\* a parent moved to the relative directory rel, with an entry of
\* statistics, was written and read back: its stream_dir came back resolved
C27_Witness ==
    /\ doc.state = "loaded"
    /\ doc.obj.v.stream_dir = PyPath(<<"rel", "stream">>)
    /\ doc.loaded.t = "ShellLogger"
    /\ doc.loaded.v.stream_dir = PyPath(TreeCwd \o <<"rel", "stream">>)
    /\ doc.loaded.v.log_dir = doc.obj.v.log_dir
    /\ Len(doc.obj.v.log_book.v) = 1
    /\ doc.obj.v.log_book.v[1].t = "dict"
    /\ doc.loaded.v.log_book.v = doc.obj.v.log_book.v

\* ------------------------------------ one command's output, by volume

\* The pipes and the reads at a reduced scale: PipeCap stands for the
\* 65536 bytes a pipe holds, FlowChunk for the 4096 bytes of one os.read
\* (and of one atomic write).
PipeCap == 4
FlowChunk == 2
MaxWrites == 3

Data == [v |-> 97, of |-> "cmd"]
Eot == [v |-> END_OF_READ, of |-> "cmd"]
Sentinel == [v |-> END_OF_READ, of |-> "frame"]

Streams == {"out", "err"}

\* what one write of a command can be: a byte of data, more data than a
\* pipe holds, or the byte 0x04
WriteKinds ==
    { [s |-> s, bytes |-> b] :
        s \in Streams,
        b \in { <<Data>>, [i \in 1..(PipeCap + 1) |-> Data], <<Eot>> } }

FlowCommands ==
    UNION { [1..n -> WriteKinds] : n \in 0..MaxWrites }

\* printf '\4' and printf '\4' 1>&2, which run() sends after the command
FrameEnd ==
    << [s |-> "out", bytes |-> <<Sentinel>>],
       [s |-> "err", bytes |-> <<Sentinel>>] >>

FlowInit ==
    /\ Session0
    /\ Apart({"flow"})
    /\ \E c \in FlowCommands :
         flow = [state |-> "run",
                 cmd |-> c,
                 todo |-> c \o FrameEnd,
                 pipe |-> [out |-> <<>>, err |-> <<>>],
                 reader |-> [out |-> "idle", err |-> "idle"],
                 got |-> [out |-> <<>>, err |-> <<>>],
                 pc |-> "tee"]

\* The shell's next write(2): up to FlowChunk bytes go into the pipe whole,
\* once it has room for them; of a longer write as many bytes as fit.  A
\* full pipe blocks the shell.
ShellWrite ==
    /\ flow.state = "run"
    /\ flow.todo # <<>>
    /\ LET w == flow.todo[1]
           n == Len(w.bytes)
           room == PipeCap - Len(flow.pipe[w.s])
       IN  \E k \in 1..n :
             /\ k <= room
             /\ n <= FlowChunk => k = n
             /\ flow' = [flow EXCEPT
                    !.pipe[w.s] = @ \o SubSeq(w.bytes, 1, k),
                    !.todo = IF k = n THEN Tail(@)
                             ELSE [@ EXCEPT ![1].bytes = SubSeq(w.bytes, k + 1, n)]]
    /\ UNCHANGED besidesFlow

\* One turn of tee's write() on stream s: os.read of at most a chunk, which
\* ends the thread when its last byte is END_OF_READ.
FlowReader(s) ==
    /\ flow.state = "run"
    /\ flow.reader[s] = "read"
    /\ flow.pipe[s] # <<>>
    /\ LET chunk == Take(flow.pipe[s], FlowChunk)
           end == Last(chunk).v = END_OF_READ
       IN  flow' = [flow EXCEPT
               !.pipe[s] = Drop(@, FlowChunk),
               !.got[s] = @ \o (IF end THEN Front(chunk) ELSE chunk),
               !.reader[s] = IF end THEN "done" ELSE "read"]
    /\ UNCHANGED besidesFlow

\* tee(): the two threads are started
FlowTee ==
    /\ flow.state = "run"
    /\ flow.pc = "tee"
    /\ flow' = [flow EXCEPT !.reader = [out |-> "read", err |-> "read"],
                            !.pc = "join_out"]
    /\ UNCHANGED besidesFlow

\* thread.join(), for stdout and then for stderr
FlowJoin ==
    /\ flow.state = "run"
    /\ \/ flow.pc = "join_out" /\ flow.reader.out = "done"
          /\ flow' = [flow EXCEPT !.pc = "join_err"]
       \/ flow.pc = "join_err" /\ flow.reader.err = "done"
          /\ flow' = [flow EXCEPT !.pc = "rc"]
    /\ UNCHANGED besidesFlow

\* auxiliary_command("echo $RET_CODE"), which the shell answers once it has
\* executed all that came before, and the return of run()
FlowReturn ==
    /\ flow.state = "run"
    /\ flow.pc = "rc"
    /\ flow.todo = <<>>
    /\ flow' = [flow EXCEPT !.pc = "returned"]
    /\ UNCHANGED besidesFlow

FlowNext ==
    \/ ShellWrite
    \/ FlowReader("out")
    \/ FlowReader("err")
    \/ FlowTee
    \/ FlowJoin
    \/ FlowReturn

FlowSpec == FlowInit /\ [][FlowNext]_vars

\* The shell and each thread take a step whenever they can.
FairFlowSpec ==
    /\ FlowSpec
    /\ WF_vars(ShellWrite)
    /\ WF_vars(FlowReader("out"))
    /\ WF_vars(FlowReader("err"))
    /\ WF_vars(FlowTee \/ FlowJoin \/ FlowReturn)

\* C28: whatever a terminating command writes to its two streams, in
\* whatever volume and order, run() returns in the end.
C28_Drains == <>(flow.pc = "returned")

\* the stdout thread ended on a 0x04 of the command; the shell is blocked
\* writing to the full stdout pipe, the stderr thread waits for a sentinel
\* the shell has not reached, and the main thread waits in join
C28_Witness ==
    /\ flow.state = "run"
    /\ flow.reader.out = "done"
    /\ flow.reader.err = "read"
    /\ flow.pc = "join_err"
    /\ Len(flow.pipe.out) = PipeCap
    /\ flow.pipe.err = <<>>
    /\ flow.todo # <<>>
    /\ flow.todo[1].s = "out"
    /\ flow.todo[1].bytes = <<Data>>
    /\ ~ENABLED FlowNext

\* ------------------------------------------- the two threads' signals

\* Both tee threads found their stream closed in the run() of the last call
\* of the session, and that call is over.
BothClosed ==
    /\ pc = "idle"
    /\ calls > 0
    /\ op.name \in RunOps
    /\ Closed("out") /\ Closed("err")

\* C29: when the shell has died and both tee threads have found their
\* stream closed, the caller of run() gets one error, the RuntimeError that
\* holds the command; no KeyboardInterrupt leaves run() in its place, and
\* none reaches the caller after run() has raised.
C29_OneError ==
    BothClosed =>
        /\ result.kind = "RuntimeError"
        /\ result.of = op.name
        /\ result.msg = op.cmd

\* run() raised its RuntimeError on the first thread's signal, and the
\* second thread's signal then raised KeyboardInterrupt in the caller
C29_Witness ==
    /\ BothClosed
    /\ op.cmd = Cmd_syntax
    /\ hist.failed
    /\ ~stdinOpen
    /\ result.kind = "KeyboardInterrupt"
    /\ result.of = "caller"

\* ------------------------------------------ the byte 0x04 in the output

\* the place of the first END_OF_READ among bytes bs, 0 when there is none
FirstEot(bs) ==
    IF \E i \in 1..Len(bs) : bs[i] = END_OF_READ
    THEN CHOOSE i \in 1..Len(bs) :
             /\ bs[i] = END_OF_READ
             /\ \A j \in 1..(i - 1) : bs[j] # END_OF_READ
    ELSE 0

\* what the sinks of stream s hold of the current call's command
Delivered(s) ==
    SelectSeq(sink[s].file, LAMBDA ch : ch.by = "cmd" /\ ch.n = calls)

\* C30: a 0x04 byte in a command's output ends the frame of its stream
\* wherever it falls in a chunk: no sink is ever given the byte, and of the
\* current command's output a sink holds nothing from that byte on.
C30_EotEndsFrame ==
    \A s \in {"out", "err"} :
        /\ \A i \in 1..Len(sink[s].file) : sink[s].file[i].c # END_OF_READ
        /\ (fr.n = calls /\ FirstEot(wrote[s]) > 0) =>
               Len(Delivered(s)) < FirstEot(wrote[s])

\* printf 'a\4' and printf b reached the stdout thread in one chunk: run()
\* returned the three characters, the 0x04 among them
C30_Witness ==
    /\ Returned({"run"})
    /\ op.cmd = Cmd_eot
    /\ op.str
    /\ Codes(result.out) = <<97, END_OF_READ, 98>>
    /\ OnSentinel("out")

\* ======================================================================
\* One stream's bytes read under two divisions into chunks.
\* ======================================================================

\* The most bytes one os.read returns, the longest command output and the
\* most bytes behind the sentinel.
MaxRead == 3
MaxOut == 2
MaxAfter == 1

\* The sequences over S of length at most n.
RECURSIVE SeqsUpTo(_, _)
SeqsUpTo(S, n) ==
    IF n = 0 THEN {<<>>}
    ELSE LET shorter == SeqsUpTo(S, n - 1)
         IN shorter \cup {Append(q, b) : q \in shorter, b \in S}

\* The two readings that are compared.
Readings == {"x", "y"}

\* A command's output (ASCII a, or the bytes C3 and A9 of U+00E9), the
\* sentinel that run() queued behind the command, and the bytes that reach
\* the pipe behind it before the thread has read it.
SplitInit ==
    /\ Session0
    /\ Apart({"split"})
    /\ \E out \in SeqsUpTo({97, 195, 169}, MaxOut),
          after \in SeqsUpTo({98, END_OF_READ}, MaxAfter) :
          split = [state |-> "read",
                   out |-> out,
                   bytes |-> out \o <<END_OF_READ>> \o after,
                   pos |-> [r \in Readings |-> 0],
                   text |-> [r \in Readings |-> <<>>],
                   open |-> [r \in Readings |-> TRUE]]

\* One turn of write()'s loop in reading r: os.read returns the next n bytes
\* (1 <= n <= chunk size, as many as have reached the pipe); a chunk that
\* ends in END_OF_READ is written without that byte and ends the thread,
\* any other chunk is decoded and written whole.
SplitRead(r, n) ==
    /\ split.state = "read"
    /\ split.open[r]
    /\ n >= 1 /\ split.pos[r] + n <= Len(split.bytes)
    /\ LET chunk == SubSeq(split.bytes, split.pos[r] + 1, split.pos[r] + n)
           end == Last(chunk) = END_OF_READ
           data == IF end THEN Front(chunk) ELSE chunk
       IN split' = [split EXCEPT
                      !.pos[r] = @ + n,
                      !.text[r] = @ \o Codes(DecodeIgnore(Tag(data, "out", "cmd", 0))),
                      !.open[r] = ~end]
    /\ UNCHANGED besidesSplit

SplitNext == \E r \in Readings, n \in 1..MaxRead : SplitRead(r, n)

SplitSpec == SplitInit /\ [][SplitNext]_vars

\* C31: the text delivered for a stream is the same for every division of
\* the same bytes into read chunks, and the reader terminates: two readings
\* that have both ended delivered the same text, and a reading that has
\* taken every byte there is has ended (one that has not waits in os.read
\* for ever, the shell being alive).
C31_ChunkingIrrelevant ==
    split.state = "read" =>
        /\ (~split.open["x"] /\ ~split.open["y"]
               => split.text["x"] = split.text["y"])
        /\ \A r \in Readings :
               split.pos[r] = Len(split.bytes) => ~split.open[r]

\* Both readings ended on the frame's sentinel after different divisions of
\* a non-empty output.
C31_Witness ==
    /\ split.state = "read"
    /\ split.out # <<>>
    /\ ~split.open["x"] /\ ~split.open["y"]
    /\ split.pos["x"] = Len(split.out) + 1
    /\ split.pos["y"] = Len(split.out) + 1
    /\ split.text["x"] = TextOf(split.out)
    /\ split.text["y"] = split.text["x"]

\* ======================================================================
\* auxiliary_command and the auxiliary pipes with their non-blocking
\* write ends.
\* ======================================================================

\* The bytes an auxiliary pipe holds (65536 in the code's environment, the
\* size of one os.read of auxiliary_command too), and the most writes a
\* command makes.
AuxCap == 3
MaxAuxWrites == 2

\* What one write of an auxiliary command can be: a byte, a full pipe's
\* worth, or one byte more than that, to either stream.
AuxWriteKinds ==
    { [s |-> s, bytes |-> [i \in 1..n |-> Data]] :
        s \in Streams, n \in {1, AuxCap, AuxCap + 1} }

AuxCommands == UNION { [1..n -> AuxWriteKinds] : n \in 0..MaxAuxWrites }

\* The bytes of a sequence of writes that go to stream s.
RECURSIVE BytesTo(_, _)
BytesTo(ws, s) ==
    IF ws = <<>> THEN <<>>
    ELSE (IF ws[1].s = s THEN ws[1].bytes ELSE <<>>) \o BytesTo(Tail(ws), s)

\* auxiliary_command(posix=cmd) has written "cmd 1>&out 2>&err",
\* "printf '\4' 1>&out" and "printf '\4' 1>&err" to the shell's stdin and
\* is about to read the auxiliary stdout pipe.
AuxioInit ==
    /\ Session0
    /\ Apart({"auxio"})
    /\ \E c \in AuxCommands :
         auxio = [state |-> "call",
                  cmd |-> c,
                  todo |-> c \o FrameEnd,
                  pipe |-> [out |-> <<>>, err |-> <<>>],
                  got |-> [out |-> <<>>, err |-> <<>>],
                  lost |-> [out |-> <<>>, err |-> <<>>],
                  pc |-> "read_out"]

\* The next write(2) of the shell or of the command it runs, on a write end
\* that was made O_NONBLOCK: a single byte goes in if there is room; of a
\* longer write as many bytes as fit go in and the writer tries the rest
\* again; with no room at all the call fails with EAGAIN and the writer
\* gives the write up (printf: write error).
AuxioShellWrite ==
    /\ auxio.state = "call"
    /\ auxio.todo # <<>>
    /\ LET w == auxio.todo[1]
           n == Len(w.bytes)
           room == AuxCap - Len(auxio.pipe[w.s])
           k == Min(n, room)
       IN  auxio' = [auxio EXCEPT
              !.pipe[w.s] = @ \o SubSeq(w.bytes, 1, k),
              !.lost[w.s] = IF k = 0 THEN @ \o w.bytes ELSE @,
              !.todo = IF k = 0 \/ k = n THEN Tail(@)
                       ELSE [@ EXCEPT ![1].bytes = SubSeq(w.bytes, k + 1, n)]]
    /\ UNCHANGED besidesAuxio

\* One os.read(fd, max_anonymous_pipe_buffer_size) of auxiliary_command on
\* stream s, which blocks while the pipe is empty: a chunk that ends in
\* END_OF_READ ends the loop of that stream.
auxiliary_command_read(s) ==
    /\ auxio.state = "call"
    /\ auxio.pc = (IF s = "out" THEN "read_out" ELSE "read_err")
    /\ auxio.pipe[s] # <<>>
    /\ LET chunk == Take(auxio.pipe[s], AuxCap)
           end == Last(chunk).v = END_OF_READ
       IN  auxio' = [auxio EXCEPT
              !.pipe[s] = Drop(@, AuxCap),
              !.got[s] = @ \o (IF end THEN Front(chunk) ELSE chunk),
              !.pc = IF ~end THEN @
                     ELSE IF s = "out" THEN "read_err" ELSE "returned"]
    /\ UNCHANGED besidesAuxio

AuxioNext ==
    \/ AuxioShellWrite
    \/ auxiliary_command_read("out")
    \/ auxiliary_command_read("err")

AuxioSpec == AuxioInit /\ [][AuxioNext]_vars

\* The shell and the calling thread take a step whenever they can.
FairAuxioSpec ==
    /\ AuxioSpec
    /\ WF_vars(AuxioShellWrite)
    /\ WF_vars(auxiliary_command_read("out") \/ auxiliary_command_read("err"))

\* C32: every auxiliary_command call on a live session returns in the end,
\* with all that the command wrote to stdout and to stderr: no byte and no
\* sentinel is lost on the non-blocking write ends.
C32_AuxComplete ==
    <>(/\ auxio.pc = "returned"
       /\ \A s \in Streams : auxio.got[s] = BytesTo(auxio.cmd, s))

\* The command wrote more to stderr than the pipe holds while the caller
\* waits for stdout: bytes were refused.
C32_Witness ==
    /\ auxio.state = "call"
    /\ auxio.pc = "read_out"
    /\ Len(BytesTo(auxio.cmd, "err")) > AuxCap
    /\ auxio.lost["err"] # <<>>

\* ======================================================================
\* Two threads of a client, each calling run() once on the same session.
\* ======================================================================

Callers == {"A", "B"}
OtherCaller(c) == IF c = "A" THEN "B" ELSE "A"

\* The most bytes one os.read of a tee thread returns here.
DuoChunk == 2

\* The lines run() writes to the shell's stdin, one os.write each: the
\* command in braces, RET_CODE=$?, printf '\4' and printf '\4' 1>&2.
RunLines == <<"cmd", "ret", "s_out", "s_err">>

\* The client either calls from its two threads as they come, or makes the
\* second call after the first has returned.
DuoInit ==
    /\ Session0
    /\ Apart({"duo"})
    /\ \E serial \in BOOLEAN :
         duo = [state |-> "two",
                serial |-> serial,
                pc |-> [c \in Callers |-> "idle"],
                written |-> [c \in Callers |-> 0],
                stdin |-> <<>>,
                pipe |-> [out |-> <<>>, err |-> <<>>, aux |-> <<>>],
                reader |-> [c \in Callers |-> [out |-> "idle", err |-> "idle"]],
                got |-> [c \in Callers |-> [out |-> <<>>, err |-> <<>>]]]

\* A run() call of c has written its command and has not returned.
InFlight(c) == duo.pc[c] \notin {"idle", "returned"}

\* The next os.write of run() in thread c (shell.py:176-192); after the
\* fourth, run() enters tee.
DuoWrite(c) ==
    /\ duo.state = "two"
    /\ duo.pc[c] \in {"idle", "write"}
    /\ duo.pc[c] = "idle" /\ duo.serial => ~InFlight(OtherCaller(c))
    /\ LET k == duo.written[c] + 1
       IN  duo' = [duo EXCEPT
              !.stdin = Append(@, [l |-> RunLines[k], by |-> c]),
              !.written[c] = k,
              !.pc[c] = IF k = Len(RunLines) THEN "tee" ELSE "write"]
    /\ UNCHANGED besidesDuo


\* tee() in thread c starts its two threads.
DuoTee(c) ==
    /\ duo.state = "two"
    /\ duo.pc[c] = "tee"
    /\ duo' = [duo EXCEPT !.reader[c] = [out |-> "read", err |-> "read"],
                          !.pc[c] = "join"]
    /\ UNCHANGED besidesDuo

\* One turn of write() in the tee thread of c's call for stream s.
DuoReader(c, s) ==
    /\ duo.state = "two"
    /\ duo.reader[c][s] = "read"
    /\ duo.pipe[s] # <<>>
    /\ LET chunk == Take(duo.pipe[s], DuoChunk)
           end == Last(chunk).v = END_OF_READ
       IN  duo' = [duo EXCEPT
              !.pipe[s] = Drop(@, DuoChunk),
              !.got[c][s] = @ \o (IF end THEN Front(chunk) ELSE chunk),
              !.reader[c][s] = IF end THEN "done" ELSE "read"]
    /\ UNCHANGED besidesDuo

\* Both threads of c's call are joined; run() asks for the return code
\* with auxiliary_command("echo $RET_CODE").
DuoJoin(c) ==
    /\ duo.state = "two"
    /\ duo.pc[c] = "join"
    /\ duo.reader[c].out = "done" /\ duo.reader[c].err = "done"
    /\ duo' = [duo EXCEPT !.stdin = Append(@, [l |-> "rc", by |-> c]),
                          !.pc[c] = "rc"]
    /\ UNCHANGED besidesDuo

\* auxiliary_command reads the answer to its sentinel and run() returns.
DuoReturn(c) ==
    /\ duo.state = "two"
    /\ duo.pc[c] = "rc"
    /\ duo.pipe.aux # <<>>
    /\ Last(duo.pipe.aux).v = END_OF_READ
    /\ duo' = [duo EXCEPT !.pipe.aux = <<>>, !.pc[c] = "returned"]
    /\ UNCHANGED besidesDuo

\* The shell executes the next line of its stdin: a command writes a byte
\* to stdout, the printf lines write the sentinels, echo $RET_CODE writes
\* to the auxiliary pipe.
DuoShell ==
    /\ duo.state = "two"
    /\ duo.stdin # <<>>
    /\ LET line == duo.stdin[1]
           b(v) == [v |-> v, by |-> line.by]
       IN  duo' = [duo EXCEPT
              !.stdin = Tail(@),
              !.pipe.out = IF line.l = "cmd" THEN Append(@, b(97))
                           ELSE IF line.l = "s_out"
                           THEN Append(@, b(END_OF_READ)) ELSE @,
              !.pipe.err = IF line.l = "s_err"
                           THEN Append(@, b(END_OF_READ)) ELSE @,
              !.pipe.aux = IF line.l = "rc"
                           THEN @ \o <<b(48), b(END_OF_READ)>> ELSE @]
    /\ UNCHANGED besidesDuo

DuoNext ==
    \/ \E c \in Callers : DuoWrite(c)
    \/ \E c \in Callers : DuoTee(c)
    \/ \E c \in Callers, s \in Streams : DuoReader(c, s)
    \/ \E c \in Callers : DuoJoin(c)
    \/ \E c \in Callers : DuoReturn(c)
    \/ DuoShell

DuoSpec == DuoInit /\ [][DuoNext]_vars

\* C33: at most one command is in flight on a session: while one run()
\* call has written its command and has not returned, no second run() on
\* the session writes to the shell's stdin or reads the output pipes.
C33_OneInFlight == ~(InFlight("A") /\ InFlight("B"))

\* The second call wrote its command while the first call was reading, and
\* a thread of the first call has taken bytes of the second command.
C33_Witness ==
    /\ duo.state = "two"
    /\ InFlight("A") /\ InFlight("B")
    /\ \E i \in 1..Len(duo.got["A"].out) : duo.got["A"].out[i].by = "B"

\* ======================================================================
\* The sampler processes of one _run call.
\* ======================================================================

\* C34: every sampler that _run starts has been stopped by finish(), once,
\* when control leaves _run, however it leaves: no sampler process is left
\* running.
C34_SamplersStopped ==
    Over({"_run"}) => loc.alive = {} /\ loc.finished = loc.collectors

\* _run started the cpu sampler and the lookup of the tracer raised.
C34_Witness ==
    /\ Over({"_run"})
    /\ result.kind = "RuntimeError"
    /\ op.trace # NoTrace
    /\ loc.collectors = <<"cpu">>
    /\ loc.alive = {"cpu"}

\* ======================================================================
\* Several sessions in one process and the numbers of their descriptors.
\* ======================================================================

\* The sessions a client makes and the highest descriptor number in use.
MaxSessions == 3
MaxFd == 30

FdNumbers == 3..MaxFd
FreeFd == [s |-> 0, role |-> "free"]

\* The lowest descriptor number that is free, which the OS hands out next.
LowestFree(t) ==
    CHOOSE n \in FdNumbers : t[n] = FreeFd /\ \A m \in 3..(n - 1) : t[m] # FreeFd

\* os.pipe() on behalf of session s: two new descriptors.
os_pipe(t, s, rd, wr) ==
    LET r == LowestFree(t)
        t1 == [t EXCEPT ![r] = [s |-> s, role |-> rd]]
        w == LowestFree(t1)
    IN [t1 EXCEPT ![w] = [s |-> s, role |-> wr]]

\* A session that has not been made.  A session keeps, for each role, the
\* number it was given when the descriptor was made, whatever has become of
\* that descriptor since.
NoSession == [state |-> "none", shell |-> "none", fd |-> <<>>]

\* The number of the descriptor that session s has just made for a role.
NumberOf_role(t, s, role) ==
    CHOOSE n \in FdNumbers : t[n] = [s |-> s, role |-> role]

\* The session that holds descriptor number n now, when it is a session the
\* client has not torn down, other than s.
Foreign(f, s, n) ==
    /\ f.table[n] # FreeFd
    /\ f.table[n].s # s
    /\ f.sess[f.table[n].s].state = "live"

FdsInit ==
    /\ Session0
    /\ Apart({"fds"})
    /\ fds = [state |-> "table",
              made |-> 0,
              table |-> [n \in FdNumbers |-> FreeFd],
              sess |-> [s \in 1..MaxSessions |-> NoSession],
              foreign |-> {}]

\* Shell(): three os.pipe() calls, and Popen(stdout=PIPE, stderr=PIPE), which
\* makes two more pipes and closes their write ends in this process once the
\* shell is spawned.
Shell_init ==
    /\ fds.state = "table"
    /\ fds.made < MaxSessions
    /\ Cardinality({n \in FdNumbers : fds.table[n] = FreeFd}) >= 10
    /\ LET s == fds.made + 1
           t3 == os_pipe(os_pipe(os_pipe(fds.table, s, "aux_stdin_rfd",
                                         "aux_stdin_wfd"),
                                 s, "aux_stdout_rfd", "aux_stdout_wfd"),
                         s, "aux_stderr_rfd", "aux_stderr_wfd")
           t5 == os_pipe(os_pipe(t3, s, "stdout", "c2pwrite"),
                         s, "stderr", "errwrite")
           roles == {"aux_stdin_rfd", "aux_stdin_wfd", "aux_stdout_rfd",
                     "aux_stdout_wfd", "aux_stderr_rfd", "aux_stderr_wfd",
                     "stdout", "stderr"}
           t6 == [n \in FdNumbers |->
                     IF t5[n].s = s /\ t5[n].role \in {"c2pwrite", "errwrite"}
                     THEN FreeFd ELSE t5[n]]
       IN fds' = [fds EXCEPT
                    !.made = s,
                    !.table = t6,
                    !.sess[s] = [state |-> "live", shell |-> "alive",
                                 fd |-> [r \in roles |->
                                            NumberOf_role(t6, s, r)]]]
    /\ UNCHANGED besidesFds

\* os.close(n) by session s: the descriptor that has the number now is
\* closed, whoever made it; on a free number os.close raises OSError.
os_close(f, s, n) ==
    [f EXCEPT !.table[n] = FreeFd,
              !.foreign = IF Foreign(f, s, n) THEN @ \cup {"close"} ELSE @]

\* run() of session s on a command that ends the shell, or on a session whose
\* shell is gone: the os.write calls go to the number in aux_stdin_wfd (and
\* raise OSError when that number is free or is a read end); the tee threads
\* read end of file, and the except clause closes the number in
\* aux_stdin_wfd.
Shell_run_failing(s) ==
    /\ fds.state = "table"
    /\ fds.sess[s].state \in {"live", "torn"}
    /\ LET n == fds.sess[s].fd["aux_stdin_wfd"]
           writable == fds.table[n] # FreeFd
                       /\ fds.table[n].role \in {"aux_stdin_wfd",
                                                 "aux_stdout_wfd",
                                                 "aux_stderr_wfd"}
           f1 == [fds EXCEPT
                    !.foreign = IF writable /\ Foreign(fds, s, n)
                                THEN @ \cup {"write"} ELSE @,
                    !.sess[s].shell = "dead"]
       IN fds' = IF writable THEN os_close(f1, s, n) ELSE f1
    /\ UNCHANGED besidesFds

\* __del__ of session s: os.close on the six numbers the session took from
\* os.pipe(), OSError "Bad file descriptor" passed over.
RECURSIVE CloseAll(_, _, _)
CloseAll(f, s, ns) ==
    IF ns = <<>> THEN f
    ELSE CloseAll(IF f.table[ns[1]] = FreeFd THEN f
                  ELSE os_close(f, s, ns[1]), s, Tail(ns))

Shell_del(s) ==
    /\ fds.state = "table"
    /\ fds.sess[s].state \in {"live", "torn"}
    /\ LET ns == [i \in 1..Len(DelFds) |-> fds.sess[s].fd[DelFds[i]]]
       IN fds' = [CloseAll(fds, s, ns) EXCEPT !.sess[s].state = "torn"]
    /\ UNCHANGED besidesFds

FdsNext ==
    \/ Shell_init
    \/ \E s \in 1..MaxSessions : Shell_run_failing(s)
    \/ \E s \in 1..MaxSessions : Shell_del(s)

FdsSpec == FdsInit /\ [][FdsNext]_vars

\* C35: a session closes and writes only descriptors it owns at that
\* moment: whatever sessions are made, fail and are torn down, no teardown,
\* failed run() or later write of one session closes or writes to a
\* descriptor that belongs to another session that has not been torn down.
C35_OwnDescriptors == fds.state = "table" => fds.foreign = {}

\* A second session was made after the first one's run() had failed, and
\* the teardown of the first closed a descriptor of the second.
C35_Witness ==
    /\ fds.state = "table"
    /\ fds.made >= 2
    /\ fds.sess[1].state = "torn"
    /\ fds.sess[2].state = "live"
    /\ fds.table[fds.sess[2].fd["aux_stdin_rfd"]] = FreeFd
    /\ "close" \in fds.foreign

\* ======================================================================
\* The sinks of one run() call.
\* ======================================================================

\* C36: when a run() call is over, returned or raised, every file it opened
\* for stdout and stderr is closed, and it closed neither console stream.
C36_FilesClosed ==
    Over({"run"}) /\ sink.out.st.file # "none" =>
        \A s \in {"out", "err"} :
            sink[s].st.file = "closed" /\ sink[s].st.console = "open"

\* run() raised RuntimeError on a protocol failure after its tee had opened
\* the two files.
C36_Witness ==
    /\ Over({"run"})
    /\ result.kind = "RuntimeError"
    /\ sink.out.st.file = "open"
    /\ sink.err.st.file = "open"

\* ======================================================================
\* The auxiliary snapshot of _run.
\* ======================================================================

\* C37: in _run the auxiliary snapshot is taken after the change into the
\* target directory and before the command is written to the shell: when
\* _run is about to write the command, the snapshot is complete, the shell
\* has nothing left to execute, cd(pwd) has been carried out if a target
\* directory was given (the controlling process is in it), and the working
\* directory in the snapshot is the directory the shell is in; so for a
\* command that itself changes directory the recorded working directory is
\* the one before that change.
C37_SnapshotBeforeCommand ==
    /\ (op.name \in {"_run", "log"} /\ pc = "run_write") =>
          /\ Len(loc.info) = Len(InfoList)
          /\ stdinPipe = <<>>
          /\ op.path # NoPath => procCwd = op.path /\ loc.cdPath = op.path
          /\ Codes(loc.info[1]) = PathText(shCwd)
    /\ (Returned({"_run"}) /\ op.cmd = Cmd_cd_tmp /\ op.path = NoPath) =>
          /\ Codes(result.pwd) = PathText(hist.cwd0)
          /\ shCwd = <<"/tmp">>

\* _run("pwd", pwd=/tmp) from a shell in another directory is about to write
\* its command, with /tmp in the snapshot.
C37_Witness ==
    /\ op.name = "_run" /\ pc = "run_write"
    /\ op.path = <<"/tmp">>
    /\ hist.cwd0 # <<"/tmp">>
    /\ Codes(loc.info[1]) = PathText(<<"/tmp">>)

\* The main thread is inside tee() with the threads started, or the call
\* has returned a result: the sinks are those of the current call.
SinksCurrent ==
    \/ pc \in TryPcs \ {"tee_start"}
    \/ Returned(RunOps)

\* C38: within one run() call all sinks that are active for a stream have
\* received the same content: the console echo (unless quiet) and the
\* in-memory text (when asked for) equal what was written to the file,
\* chunk by chunk, the final chunk without its sentinel.
C38_SinksAgree ==
    SinksCurrent =>
        \A s \in {"out", "err"} :
            /\ ~op.quiet[s] => sink[s].console = sink[s].file
            /\ op.str => sink[s].io = sink[s].file

\* A run() that echoes and keeps strings returned with the same non-empty
\* text in the three sinks of stdout.
C38_Witness ==
    /\ Returned({"run"})
    /\ ~op.quiet["out"] /\ op.str
    /\ sink.out.file # <<>>
    /\ sink.out.console = sink.out.file
    /\ sink.out.io = sink.out.file

\* ======================================================================
\* A ShellLogger's log_book under a sequence of calls.
\* ======================================================================

\* The calls a client makes on the logger.
MaxBookCalls == 4

\* How a log() call can end: _run returns; Shell.run raises RuntimeError on a
\* protocol failure; _run raises on its configuration (an unknown tracer,
\* a directory that is missing); or log() itself is called with arguments
\* it hands to _run twice (TypeError).
LogOutcomes == {"ok", "RuntimeError", "FileNotFoundError", "TypeError"}

\* ShellLogger(name): an empty log_book, no call made.
BookInit ==
    /\ Session0
    /\ Apart({"journal"})
    /\ journal = [state |-> "logging",
               calls |-> 0,
               log_book |-> <<>>,
               completed |-> <<>>,
               last |-> [op |-> "none", raised |-> FALSE, before |-> <<>>]]

\* The record of a call: its number, what it appended if it completed.
BookCall(b, kind, raised, entries) ==
    [b EXCEPT !.calls = @ + 1,
              !.log_book = @ \o entries,
              !.completed = IF raised THEN @
                            ELSE Append(@, [kind |-> kind, n |-> b.calls + 1]),
              !.last = [op |-> kind, raised |-> raised,
                        before |-> b.log_book]]

\* print(msg): the message is printed and {"msg", "timestamp", "cmd": None}
\* is appended.
ShellLogger_print ==
    /\ journal.state = "logging" /\ journal.calls < MaxBookCalls
    /\ journal' = BookCall(journal, "print", FALSE,
                        <<[kind |-> "print", n |-> journal.calls + 1]>>)
    /\ UNCHANGED besidesJournal

\* html_print(msg): {"msg", "msg_title", "timestamp", "cmd": None} is
\* appended.
ShellLogger_html_print ==
    /\ journal.state = "logging" /\ journal.calls < MaxBookCalls
    /\ journal' = BookCall(journal, "html_print", FALSE,
                        <<[kind |-> "html_print", n |-> journal.calls + 1]>>)
    /\ UNCHANGED besidesJournal

\* add_child(name): the child logger is made and appended.
ShellLogger_add_child ==
    /\ journal.state = "logging" /\ journal.calls < MaxBookCalls
    /\ journal' = BookCall(journal, "add_child", FALSE,
                        <<[kind |-> "add_child", n |-> journal.calls + 1]>>)
    /\ UNCHANGED besidesJournal

\* A log() that appends its entry before it calls _run.
ShellLogger_log_early ==
    /\ journal.state = "logging" /\ journal.calls < MaxBookCalls
    /\ \E outcome \in LogOutcomes :
         journal' = BookCall(journal, "log", outcome # "ok",
                          <<[kind |-> "log", n |-> journal.calls + 1]>>)
    /\ UNCHANGED besidesJournal

\* log(msg, cmd): the entry is built, _run is called, and the entry, merged
\* with the result, is appended once _run has returned.
ShellLogger_log ==
    /\ journal.state = "logging" /\ journal.calls < MaxBookCalls
    /\ \E outcome \in LogOutcomes :
         journal' = BookCall(journal, "log", outcome # "ok",
                          IF outcome = "ok"
                          THEN <<[kind |-> "log", n |-> journal.calls + 1]>>
                          ELSE <<>>)
    /\ UNCHANGED besidesJournal

BookNext ==
    \/ ShellLogger_print
    \/ ShellLogger_html_print
    \/ ShellLogger_add_child
    \/ ShellLogger_log

BookSpec == BookInit /\ [][BookNext]_vars

\* C39: after any sequence of log, print, html_print and add_child calls the
\* log_book holds exactly one entry for each call that completed, in the
\* order of the calls; and a log() call that raised added no entry and left
\* the earlier entries as they were.
C39_OneEntryPerCall ==
    journal.state = "logging" =>
        /\ journal.log_book = journal.completed
        /\ (journal.last.op = "log" /\ journal.last.raised)
              => journal.log_book = journal.last.before

\* A log() call raised after two calls that completed, and the journal holds
\* their two entries.
C39_Witness ==
    /\ journal.state = "logging"
    /\ journal.last.op = "log" /\ journal.last.raised
    /\ Len(journal.log_book) = 2
    /\ journal.calls = 3
    /\ journal.log_book[1].kind = "log"

\* ======================================================================
\* The disk sampler: one list of samples for each mount point.
\* ======================================================================

\* The mount points psutil.disk_partitions() can report, in its order.
MaxMounts == 3

\* The clock stops here (in units of the polling interval's half).
MaxDiskTicks == 4

\* The mount points a DiskStatsCollector can discover.
Partitions == <<"/", "/tmp", "/dev/shm">>

\* psutil.disk_usage(m).percent, as far as the lists can tell values apart.
Percents == {10, 90}

\* The polling interval, in ticks of the clock.
DiskInterval == 2

\* DiskStatsCollector(interval, manager): the mount points are discovered
\* and each gets an empty list in the shared mapping.
MountsInit ==
    /\ Session0
    /\ Apart({"mounts"})
    /\ \E n \in 1..MaxMounts :
         mounts = [state |-> "new",
                   mount_points |-> SubSeq(Partitions, 1, n),
                   stats |-> [m \in {Partitions[i] : i \in 1..n} |-> <<>>],
                   pc |-> "loop",
                   k |-> 0,
                   timestamp |-> 0,
                   wake |-> 0,
                   now |-> 0,
                   result |-> <<>>]

\* start(): the collector process begins its loop.
DiskStatsCollector_start ==
    /\ mounts.state = "new"
    /\ mounts' = [mounts EXCEPT !.state = "running"]
    /\ UNCHANGED besidesMounts

\* collect(), its first statement: the timestamp of the tick is taken once,
\* before the loop over the mount points.
collect_timestamp ==
    /\ mounts.state = "running" /\ mounts.pc = "loop"
    /\ mounts.now >= mounts.wake
    /\ mounts' = [mounts EXCEPT !.timestamp = mounts.now,
                                !.k = 1, !.pc = "collect"]
    /\ UNCHANGED besidesMounts

\* collect(), one turn of its loop: the usage of one mount point is read and
\* (timestamp, percent) is appended to that mount point's list; after the
\* last mount point the process sleeps for the interval.
collect_append ==
    /\ mounts.state = "running" /\ mounts.pc = "collect"
    /\ \E p \in Percents :
         LET m == mounts.mount_points[mounts.k]
             last == mounts.k = Len(mounts.mount_points)
         IN  mounts' = [mounts EXCEPT
                 !.stats[m] = Append(@, <<mounts.timestamp, p>>),
                 !.k = IF last THEN 0 ELSE @ + 1,
                 !.pc = IF last THEN "loop" ELSE "collect",
                 !.wake = IF last THEN mounts.now + DiskInterval ELSE @]
    /\ UNCHANGED besidesMounts

\* Time passes, while the process sleeps and while it reads a disk's usage.
DiskTick ==
    /\ mounts.state = "running"
    /\ mounts.now < MaxDiskTicks
    /\ mounts' = [mounts EXCEPT !.now = @ + 1]
    /\ UNCHANGED besidesMounts

\* unproxied_stats(): {k: list(v) for k, v in self.stats.items()}.
DiskStatsCollector_unproxied_stats(d) ==
    [m \in DOMAIN d.stats |-> d.stats[m]]

\* finish(): the process is terminated wherever it is, and the mapping is
\* copied out of the manager.
DiskStatsCollector_finish ==
    /\ mounts.state = "running"
    /\ mounts' = [mounts EXCEPT
           !.state = "finished",
           !.result = DiskStatsCollector_unproxied_stats(mounts)]
    /\ UNCHANGED besidesMounts

MountsNext ==
    \/ DiskStatsCollector_start
    \/ collect_timestamp
    \/ collect_append
    \/ DiskTick
    \/ DiskStatsCollector_finish

MountsSpec == MountsInit /\ [][MountsNext]_vars

\* The keys of the mapping finish() returned.
ResultKeys == DOMAIN mounts.result

\* C40: the mapping finish() returns is aligned across the mount points:
\* every discovered mount point is a key, all the lists have the same
\* length, and the i-th sample of every mount point has the same timestamp,
\* whenever the sampler process was terminated.
C40_Aligned ==
    mounts.state = "finished" =>
        /\ ResultKeys =
              {mounts.mount_points[i] : i \in 1..Len(mounts.mount_points)}
        /\ \A m1, m2 \in ResultKeys :
             /\ Len(mounts.result[m1]) = Len(mounts.result[m2])
             /\ \A i \in 1..Len(mounts.result[m1]) :
                  mounts.result[m1][i][1] = mounts.result[m2][i][1]

\* finish() was called while collect() was between two mount points of its
\* second tick: the first mount point has two samples, the last has one.
C40_Witness ==
    /\ mounts.state = "finished"
    /\ Len(mounts.mount_points) = 3
    /\ mounts.pc = "collect"
    /\ Len(mounts.result["/"]) = 2
    /\ Len(mounts.result["/dev/shm"]) = 1

=============================================================================
